---- MODULE Spec2Model ----
(***************************************************************************)
(* A model of arjunr00/raytracer-rust: the thread pool (threadpool.rs),    *)
(* the row render driver built on it, the path integrator                  *)
(* (Ray::get_color in vec.rs) and the BVH traversal (accel/bvh.rs).        *)
(* Each part has its own specification over the shared variable tuple;     *)
(* the variables of the other parts stay at their initial values.          *)
(***************************************************************************)
EXTENDS Integers, Sequences, FiniteSets, TLC

(***************************************************************************)
(* Bounds of the model.                                                    *)
(***************************************************************************)
\* number of worker threads handed to ThreadPool::new (size > 0)
NumWorkers == 2
\* how many jobs the owner of the pool may pass to execute()
MaxJobs == 3
\* how many times the owner may call finish_with()
MaxFinishCalls == 2

\* image height (rows) and width (pixels per row) of the render driver
Height == 3
Width == 2
\* largest max_depth handed to Ray::get_color
MaxDepth == 3
\* largest number of primitives in a scene handed to BVH::new
MaxPrims == 6
\* largest number of primitives in a scene of the build-only specification
MaxBuildPrims == 10
\* largest number of rows and of pixels per row handed to create_ppm
MaxGridRows == 2
MaxGridCols == 2
\* an OBJ file of the model is up to MaxVerts vertex lines followed by up to
\* MaxTail lines of any kind
MaxVerts == 3
MaxTail == 2
\* usize arithmetic wraps modulo 2^UsizeWidth when overflow is not checked
UsizeWidth == 20

Workers == 1..NumWorkers

VARIABLES
    \* ---- threadpool.rs ----
    mainpc,       \* position of the thread owning the pool
    channel,      \* mpsc channel: sequence of messages in flight
    lockHolder,   \* holder of the receiver mutex (0 = free)
    wpc,          \* position of each worker thread
    wjob,         \* job a worker is running (0 = none)
    last_job,     \* ThreadPool.last_job: 0 = None, else the stored callable
    submitted,    \* number of execute() calls made
    finishCalls,  \* number of finish_with() calls made
    termSent,     \* Terminate messages sent by drop so far
    joinIdx,      \* index of the worker drop joins next
    \* ---- history of the pool ----
    runLog,       \* <<job, worker>> for every job start, in dequeue order
    finished,     \* jobs in the order they returned
    termTaken,    \* Terminate messages consumed by each worker
    finalRun,     \* final callables started, in order
    \* ---- render driver and PPM writer ----
    rowbuf,       \* row buffers: <<>> until the row's job has written it
    ppm,          \* pixel lines appended to the PPM stream so far
    nextRow,      \* next row the writer will append
    \* ---- Ray::get_color (vec.rs) ----
    ipc,          \* position inside get_color
    depth,        \* the max_depth argument
    iter,         \* loop iterations of `for _ in 0..depth` entered so far
    color,        \* the local `color`
    curMat,       \* material of the current hit (0 = none)
    \* ---- history of get_color ----
    queries,      \* world.is_hit calls made
    scatterCalls, \* material.scatter calls made
    ended,        \* a miss or a hit without scattered ray has happened
    emissiveHit,  \* some hit material had a non-black emit()
    refL,         \* radiance L of the documented recurrence
    refBeta,      \* throughput beta of the documented recurrence
    \* ---- accel/bvh.rs: the BVH and one is_hit query ----
    objects,      \* BVH.objects
    nodes,        \* BVH.nodes
    root,         \* BVH.root
    ray,          \* the ray of the query
    q_t_min,      \* the caller's t_min
    q_t_max,      \* the caller's t_max
    t_max,        \* the local `mut t_max`
    hit,          \* the local `hit`
    node_stack,   \* the local `node_stack` (node indices)
    bpc,          \* position inside is_hit
    popLog,       \* history: node indices in the order they were popped
    \* one is_hit call on a hittable (geom/primitives.rs, geom/objects.rs)
    callee,       \* the hittable is_hit is called on
    c_ray,        \* the argument `ray`
    c_t_min,      \* the argument `t_min`
    c_t_max,      \* the argument `t_max`
    c_hit,        \* the Option<Hit> returned (some, t, id)
    c_normal,     \* the field `normal` of the returned Hit
    c_outer,      \* the field `outer` of the returned Hit
    c_material,   \* the field `material` of the returned Hit: whose it is
    c_hit_dist,   \* the hit_dist that Volume::is_hit sampled
    cpc,          \* position of the call
    \* the generators of the worker threads (math.rs: Rand)
    rngPos,       \* per worker: the number of samples drawn from its Rand
    \* one call of create_ppm (lib.rs)
    pixels,       \* the argument `pixels`: rows of pixels
    width,        \* the argument `width`
    height,       \* the argument `height`
    max_colors,   \* the argument `max_colors`
    ppm_out,      \* the local String `ppm`, as its lines
    px_i,         \* the row index i of the loop
    px_j,         \* the pixel index j of the inner loop
    ppc,          \* position inside create_ppm
    \* one call of Loader::load_obj (loader.rs)
    lines,        \* the items of read_lines(filepath): texts or read errors
    line_no,      \* the number of items the loop has taken
    vertices,     \* the local `vertices`
    indices,      \* the local `indices`: the index triple of every Tri
    face_log,     \* history: per pushed face, its parsed i_1, i_2, i_3 and
                  \* vertices.len() at that line
    overflow_checks, \* whether the build panics on integer overflow
    load_result,  \* "running", or how load_obj ended
    \* one run of main (main.rs)
    args,         \* std::env::args(): args[1] is the program name and
                  \* args[k + 1] the source's args[k]
    render_opt,   \* the local `render_opt`
    rendered,     \* the scenes whose render function has run
    exit_code,    \* the exit code of the process once it has ended
    main_pc,      \* position inside main
    \* calls of AxisAlignedBoundingBox::union on three boxes (hit.rs)
    box_a,        \* the boxes handed to union
    box_b,
    box_c,
    union_out,    \* the boxes the calls returned
    upc,          \* "call" before the calls, "returned" after
    \* ---- accel/bvh.rs: BVH::build, call by call ----
    build_objects, \* self.objects
    build_nodes,   \* self.nodes
    build_frames,  \* the calls of build in progress, innermost last
    build_splits,  \* history: <<start, mid, end>> of every split made
    build_root,    \* self.root
    build_pc       \* "build" inside BVH::new, "built" after it

poolVars == <<mainpc, channel, lockHolder, wpc, wjob, last_job, submitted,
              finishCalls, termSent, joinIdx, runLog, finished, termTaken,
              finalRun>>

renderVars == <<rowbuf, ppm, nextRow>>

integVars == <<ipc, depth, iter, color, curMat, queries, scatterCalls, ended,
               emissiveHit, refL, refBeta>>

bvhVars == <<objects, nodes, root, ray, q_t_min, q_t_max, t_max, hit,
             node_stack, bpc, popLog>>

callVars == <<callee, c_ray, c_t_min, c_t_max, c_hit, c_normal, c_outer,
              c_material, c_hit_dist, cpc>>

rngVars == <<rngPos>>

ppmVars == <<pixels, width, height, max_colors, ppm_out, px_i, px_j, ppc>>

loaderVars == <<lines, line_no, vertices, indices, face_log, overflow_checks, load_result>>

mainVars == <<args, render_opt, rendered, exit_code, main_pc>>

unionVars == <<box_a, box_b, box_c, union_out, upc>>

stepVars == <<build_objects, build_nodes, build_frames, build_splits,
              build_root, build_pc>>

vars == <<poolVars, renderVars, integVars, bvhVars, callVars, rngVars, ppmVars, loaderVars, mainVars, unionVars, stepVars>>

\* what the operations of one part of the program leave alone
otherThanPool == <<renderVars, integVars, bvhVars, callVars, rngVars, ppmVars, loaderVars, mainVars, unionVars, stepVars>>

otherThanPoolRender == <<integVars, bvhVars, callVars, rngVars, ppmVars, loaderVars, mainVars, unionVars, stepVars>>

otherThanInteg == <<poolVars, renderVars, bvhVars, callVars, rngVars, ppmVars, loaderVars, mainVars, unionVars, stepVars>>

otherThanBvh == <<poolVars, renderVars, integVars, callVars, rngVars, ppmVars, loaderVars, mainVars, unionVars, stepVars>>

otherThanPoolRenderRng == <<integVars, bvhVars, callVars, ppmVars, loaderVars, mainVars, unionVars, stepVars>>

otherThanPpm == <<poolVars, renderVars, integVars, bvhVars, callVars, rngVars, loaderVars, mainVars, unionVars, stepVars>>

otherThanLoader == <<poolVars, renderVars, integVars, bvhVars, callVars, rngVars, ppmVars, mainVars, unionVars, stepVars>>

otherThanMain == <<poolVars, renderVars, integVars, bvhVars, callVars, rngVars, ppmVars, loaderVars, unionVars, stepVars>>

otherThanUnion == <<poolVars, renderVars, integVars, bvhVars, callVars, rngVars, ppmVars, loaderVars, mainVars, stepVars>>

otherThanStep == <<poolVars, renderVars, integVars, bvhVars, callVars, rngVars, ppmVars, loaderVars, mainVars, unionVars>>

otherThanCall == <<poolVars, renderVars, integVars, bvhVars, rngVars, ppmVars, loaderVars, mainVars, unionVars, stepVars>>

(***************************************************************************)
(* threadpool.rs                                                           *)
(***************************************************************************)
NewJob(j) == [type |-> "NewJob", job |-> j]

Terminate == [type |-> "Terminate", job |-> 0]

\* mpsc::Sender::send: the message goes to the back of the queue
Send(ch, msg) == Append(ch, msg)

\* faulty variants of Recv: the message is left in the queue / the newest is taken
RecvPeek(ch) == [msg |-> Head(ch), rest |-> ch]

RecvNewest(ch) == [msg |-> ch[Len(ch)], rest |-> SubSeq(ch, 1, Len(ch) - 1)]

\* mpsc::Receiver::recv on a non-empty queue: the oldest message is removed
Recv(ch) == [msg |-> Head(ch), rest |-> Tail(ch)]

\* faulty variant of TerminateCount: one Terminate too few
TerminateCountShort == NumWorkers - 1

\* drop: `for _ in &self.workers { send(Terminate) }`
TerminateCount == Cardinality(Workers)

\* faulty variant of JoinReady: the handle is not waited for
JoinDetached(w) == TRUE

\* thread.join() returns once the worker's closure has returned
JoinReady(w) == wpc[w] = "exited"

PoolInit ==
    /\ mainpc = "alive"
    /\ channel = <<>>
    /\ lockHolder = 0
    /\ wpc = [w \in Workers |-> "lock"]
    /\ wjob = [w \in Workers |-> 0]
    /\ last_job = 0
    /\ submitted = 0
    /\ finishCalls = 0
    /\ termSent = 0
    /\ joinIdx = 1
    /\ runLog = <<>>
    /\ finished = <<>>
    /\ termTaken = [w \in Workers |-> 0]
    /\ finalRun = <<>>

\* ThreadPool::execute: box the closure and send it
ExecuteCore(limit) ==
    /\ mainpc = "alive"
    /\ submitted < limit
    /\ channel' = Send(channel, NewJob(submitted + 1))
    /\ submitted' = submitted + 1
    /\ UNCHANGED <<mainpc, lockHolder, wpc, wjob, last_job, finishCalls,
                   termSent, joinIdx, runLog, finished, termTaken, finalRun>>

\* faulty variant of FinishWithCore: a callable already stored is kept
FinishWithFirst ==
    /\ mainpc = "alive"
    /\ finishCalls < MaxFinishCalls
    /\ last_job' = IF last_job = 0 THEN finishCalls + 1 ELSE last_job
    /\ finishCalls' = finishCalls + 1
    /\ UNCHANGED <<mainpc, channel, lockHolder, wpc, wjob, submitted,
                   termSent, joinIdx, runLog, finished, termTaken, finalRun>>

\* ThreadPool::finish_with: last_job = Some(f)
FinishWithCore ==
    /\ mainpc = "alive"
    /\ finishCalls < MaxFinishCalls
    /\ last_job' = finishCalls + 1
    /\ finishCalls' = finishCalls + 1
    /\ UNCHANGED <<mainpc, channel, lockHolder, wpc, wjob, submitted,
                   termSent, joinIdx, runLog, finished, termTaken, finalRun>>

\* the pool goes out of scope: Drop::drop is entered
DropBeginCore ==
    /\ mainpc = "alive"
    /\ mainpc' = "terminate"
    /\ UNCHANGED <<channel, lockHolder, wpc, wjob, last_job, submitted,
                   finishCalls, termSent, joinIdx, runLog, finished,
                   termTaken, finalRun>>

\* drop, first loop: one Terminate per worker
DropSendTerminateCore ==
    /\ mainpc = "terminate"
    /\ termSent < TerminateCount
    /\ channel' = Send(channel, Terminate)
    /\ termSent' = termSent + 1
    /\ UNCHANGED <<mainpc, lockHolder, wpc, wjob, last_job, submitted,
                   finishCalls, joinIdx, runLog, finished, termTaken, finalRun>>

\* drop: the first loop is over, the join loop starts
DropStartJoinCore ==
    /\ mainpc = "terminate"
    /\ termSent >= TerminateCount
    /\ mainpc' = "join"
    /\ joinIdx' = 1
    /\ UNCHANGED <<channel, lockHolder, wpc, wjob, last_job, submitted,
                   finishCalls, termSent, runLog, finished, termTaken, finalRun>>

\* drop, second loop: worker.thread.take() and join(), in index order
DropJoinCore ==
    /\ mainpc = "join"
    /\ joinIdx <= NumWorkers
    /\ JoinReady(joinIdx)
    /\ joinIdx' = joinIdx + 1
    /\ UNCHANGED <<mainpc, channel, lockHolder, wpc, wjob, last_job, submitted,
                   finishCalls, termSent, runLog, finished, termTaken, finalRun>>

\* drop: `if let Some(job) = self.last_job.take() { job(); }`, the call begins
DropFinalCore ==
    /\ mainpc = "join"
    /\ joinIdx > NumWorkers
    /\ last_job' = 0
    /\ IF last_job # 0
          THEN /\ mainpc' = "final"
               /\ finalRun' = Append(finalRun, last_job)
          ELSE /\ mainpc' = "dropped"
               /\ finalRun' = finalRun
    /\ UNCHANGED <<channel, lockHolder, wpc, wjob, submitted, finishCalls,
                   termSent, joinIdx, runLog, finished, termTaken>>

\* the final callable returns and drop with it
FinalReturnCore ==
    /\ mainpc = "final"
    /\ mainpc' = "dropped"
    /\ UNCHANGED <<channel, lockHolder, wpc, wjob, last_job, submitted,
                   finishCalls, termSent, joinIdx, runLog, finished,
                   termTaken, finalRun>>

\* worker loop: receiver.lock().unwrap()
WorkerLockCore(w) ==
    /\ wpc[w] = "lock"
    /\ lockHolder = 0
    /\ lockHolder' = w
    /\ wpc' = [wpc EXCEPT ![w] = "recv"]
    /\ UNCHANGED <<mainpc, channel, wjob, last_job, submitted, finishCalls,
                   termSent, joinIdx, runLog, finished, termTaken, finalRun>>

\* faulty variant of WorkerRecvCore: the guard lives on into `match message`
\* and is dropped at the end of the loop body
WorkerRecvHolding(w) ==
    /\ wpc[w] = "recv"
    /\ lockHolder = w
    /\ channel # <<>>
    /\ LET r == Recv(channel)
       IN  /\ channel' = r.rest
           /\ IF r.msg.type = "NewJob"
                 THEN /\ wpc' = [wpc EXCEPT ![w] = "run"]
                      /\ wjob' = [wjob EXCEPT ![w] = r.msg.job]
                      /\ runLog' = Append(runLog, <<r.msg.job, w>>)
                      /\ termTaken' = termTaken
                      /\ lockHolder' = w
                 ELSE /\ wpc' = [wpc EXCEPT ![w] = "exited"]
                      /\ wjob' = wjob
                      /\ runLog' = runLog
                      /\ termTaken' = [termTaken EXCEPT ![w] = @ + 1]
                      /\ lockHolder' = 0
    /\ UNCHANGED <<mainpc, last_job, submitted, finishCalls, termSent,
                   joinIdx, finished, finalRun>>

\* worker loop: .recv().unwrap() returns a message; the guard is dropped at
\* the end of the `let message` statement; then `match message`
WorkerRecvCore(w) ==
    /\ wpc[w] = "recv"
    /\ lockHolder = w
    /\ channel # <<>>
    /\ LET r == Recv(channel)
       IN  /\ channel' = r.rest
           /\ lockHolder' = 0
           /\ IF r.msg.type = "NewJob"
                 THEN /\ wpc' = [wpc EXCEPT ![w] = "run"]
                      /\ wjob' = [wjob EXCEPT ![w] = r.msg.job]
                      /\ runLog' = Append(runLog, <<r.msg.job, w>>)
                      /\ termTaken' = termTaken
                 ELSE /\ wpc' = [wpc EXCEPT ![w] = "exited"]
                      /\ wjob' = wjob
                      /\ runLog' = runLog
                      /\ termTaken' = [termTaken EXCEPT ![w] = @ + 1]
    /\ UNCHANGED <<mainpc, last_job, submitted, finishCalls, termSent,
                   joinIdx, finished, finalRun>>

\* worker loop: job() returns, back to the top of the loop
JobReturnCore(w) ==
    /\ wpc[w] = "run"
    /\ wpc' = [wpc EXCEPT ![w] = "lock"]
    /\ wjob' = [wjob EXCEPT ![w] = 0]
    /\ finished' = Append(finished, wjob[w])
    /\ UNCHANGED <<mainpc, channel, lockHolder, last_job, submitted,
                   finishCalls, termSent, joinIdx, runLog, termTaken, finalRun>>

Execute == ExecuteCore(MaxJobs) /\ UNCHANGED otherThanPool

FinishWith == FinishWithCore /\ UNCHANGED otherThanPool

DropBegin == DropBeginCore /\ UNCHANGED otherThanPool

DropSendTerminate == DropSendTerminateCore /\ UNCHANGED otherThanPool

DropStartJoin == DropStartJoinCore /\ UNCHANGED otherThanPool

DropJoin == DropJoinCore /\ UNCHANGED otherThanPool

DropFinal == DropFinalCore /\ UNCHANGED otherThanPool

FinalReturn == FinalReturnCore /\ UNCHANGED otherThanPool

WorkerLock(w) == WorkerLockCore(w) /\ UNCHANGED otherThanPool

WorkerRecv(w) == WorkerRecvCore(w) /\ UNCHANGED otherThanPool

JobReturn(w) == JobReturnCore(w) /\ UNCHANGED otherThanPool

(***************************************************************************)
(* Render driver and PPM writer.  write_ppm_threaded, which main.rs calls, *)
(* is not among the sources; the driver and the writer follow the design   *)
(* document: one job per row, a row buffer per row, a writer that appends  *)
(* completed rows to the stream in scan order.                             *)
(***************************************************************************)
Rows == 0..(Height - 1)

\* the pixels a row job computes, left to right (a pixel is named by its
\* row and column)
RenderRow(r) == [c \in 1..Width |-> <<r, c - 1>>]

\* faulty variant of WriterReady: any completed row not yet written may go next
WriterAnyCompleted(r) == rowbuf[r] # <<>> /\ r >= nextRow

\* the writer appends row r when it is the next row in scan order and its
\* buffer has been filled
WriterReady(r) == rowbuf[r] # <<>> /\ r = nextRow

RenderIdle ==
    /\ rowbuf = [r \in Rows |-> <<>>]
    /\ ppm = <<>>
    /\ nextRow = 0

\* the driver submits the job of the next row (job j renders row j - 1)
RenderSubmitRow ==
    ExecuteCore(Height) /\ UNCHANGED otherThanPool

\* the driver has submitted every row and lets go of the pool
RenderDropBegin ==
    /\ submitted = Height
    /\ DropBeginCore
    /\ UNCHANGED otherThanPool

\* a row job returns: its row buffer is filled
RowJobReturn(w) ==
    /\ JobReturnCore(w)
    /\ rowbuf' = [rowbuf EXCEPT ![wjob[w] - 1] = RenderRow(wjob[w] - 1)]
    /\ UNCHANGED <<ppm, nextRow>>
    /\ UNCHANGED otherThanPoolRender

\* the writer appends a completed row to the PPM stream
WriterEmit ==
    /\ \E r \in Rows :
          /\ WriterReady(r)
          /\ ppm' = ppm \o rowbuf[r]
          /\ nextRow' = r + 1
    /\ UNCHANGED <<poolVars, rowbuf>>
    /\ UNCHANGED otherThanPoolRender

(***************************************************************************)
(* Rendering with random samples.  math::Rand holds a ThreadRng, the       *)
(* generator of the thread that uses it, so a row job draws its samples    *)
(* from the generator of the worker that runs it.  The stream of a worker  *)
(* is fixed: its k-th sample is named by the worker and k.  A row job      *)
(* draws one sample per pixel, and the pixel is a function of the samples  *)
(* drawn for it (here the sample itself).                                  *)
(***************************************************************************)
\* the k-th value rand_f64 returns on the generator of worker w
Sample(w, k) == <<w, k>>

RngIdle == rngPos = [w \in Workers |-> 0]

\* a row job returns on worker w: its pixels were computed, left to right,
\* from the next Width samples of the generator of w
RngRowJobReturn(w) ==
    /\ JobReturnCore(w)
    /\ rowbuf' = [rowbuf EXCEPT ![wjob[w] - 1] =
                     [c \in 1..Width |-> Sample(w, rngPos[w] + c)]]
    /\ rngPos' = [rngPos EXCEPT ![w] = rngPos[w] + Width]
    /\ UNCHANGED <<ppm, nextRow>>
    /\ UNCHANGED otherThanPoolRenderRng

(***************************************************************************)
(* lib.rs: write_pixel and create_ppm.  Colour components are in           *)
(* thousandths; a String is the sequence of its lines, a line the          *)
(* sequence of its space-separated fields.                                 *)
(***************************************************************************)
\* `x as u32` for the f64 num / den (den > 0): the fraction is dropped and
\* a negative value becomes 0
as_u32(num, den) == IF num < 0 THEN 0 ELSE num \div den

\* (255.999 * c) as u32, c in thousandths
Component(c) == as_u32(255999 * c, 1000000)

\* write_pixel: format!("{} {} {}\n", ..)
write_pixel(pixel) ==
    <<Component(pixel[1]), Component(pixel[2]), Component(pixel[3])>>

\* faulty variant of push_str: the text is put in front
push_front(str, line) == <<line>> \o str

\* String::push_str of one line
push_str(str, line) == str \o <<line>>

\* format!("P3\n{} {}\n{}\n", width, height, max_colors)
Header(w, h, m) == << <<"P3">>, <<w, h>>, <<m>> >>

\* the images of the model: pixel (i, j) of a gradient, of an image with
\* components above 1.0, and of an image with components below 0.0
PixelPatterns == {"gradient", "bright", "dark"}

PatternPixel(p, i, j) ==
    IF p = "gradient" THEN <<400 * i, 400 * j, 250>>
    ELSE IF p = "bright" THEN <<2000, 1000 + 300 * i, 1004 + 500 * j>>
    ELSE <<-500, 0 - j, 999>>

PpmIdle ==
    /\ pixels = <<>>
    /\ width = 0
    /\ height = 0
    /\ max_colors = 0
    /\ ppm_out = <<>>
    /\ px_i = 0
    /\ px_j = 0
    /\ ppc = "idle"

\* entry of create_ppm: the header is formatted into `ppm`
PpmInit ==
    /\ \E H \in 0..MaxGridRows, W \in 0..MaxGridCols, p \in PixelPatterns :
          pixels = [i \in 1..H |-> [j \in 1..W |-> PatternPixel(p, i - 1, j - 1)]]
    /\ width \in 0..MaxGridCols
    /\ height \in 0..MaxGridRows
    /\ max_colors \in {255, 15}
    /\ ppm_out = Header(width, height, max_colors)
    /\ px_i = 0
    /\ px_j = 0
    /\ ppc = "loop"

\* one turn of the inner loop: ppm.push_str(&write_pixel(pixel))
CreatePpmPixel ==
    /\ ppc = "loop"
    /\ px_i < Len(pixels)
    /\ px_j < Len(pixels[px_i + 1])
    /\ ppm_out' = push_str(ppm_out, write_pixel(pixels[px_i + 1][px_j + 1]))
    /\ px_j' = px_j + 1
    /\ UNCHANGED <<pixels, width, height, max_colors, px_i, ppc>>
    /\ UNCHANGED otherThanPpm

\* the inner loop is over: the outer loop takes the next row
CreatePpmNextRow ==
    /\ ppc = "loop"
    /\ px_i < Len(pixels)
    /\ px_j = Len(pixels[px_i + 1])
    /\ px_i' = px_i + 1
    /\ px_j' = 0
    /\ UNCHANGED <<pixels, width, height, max_colors, ppm_out, ppc>>
    /\ UNCHANGED otherThanPpm

\* the outer loop is over: `ppm` is returned
CreatePpmReturn ==
    /\ ppc = "loop"
    /\ px_i = Len(pixels)
    /\ ppc' = "done"
    /\ UNCHANGED <<pixels, width, height, max_colors, ppm_out, px_i, px_j>>
    /\ UNCHANGED otherThanPpm

(***************************************************************************)
(* loader.rs: Loader::load_obj.  A text is a sequence of characters, a     *)
(* line the sequence of the texts between its spaces.                      *)
(***************************************************************************)
DigitChars == {"0", "1", "2", "3", "4", "5", "6", "7", "8", "9"}

DigitValue(c) ==
    CASE c = "0" -> 0 [] c = "1" -> 1 [] c = "2" -> 2 [] c = "3" -> 3
      [] c = "4" -> 4 [] c = "5" -> 5 [] c = "6" -> 6 [] c = "7" -> 7
      [] c = "8" -> 8 [] c = "9" -> 9

\* the character of a digit
DigitChar == [d \in 0..9 |-> CHOOSE c \in DigitChars : DigitValue(c) = d]

IsDigits(text) == Len(text) > 0 /\ \A k \in 1..Len(text) : text[k] \in DigitChars

RECURSIVE DigitsValue(_)
DigitsValue(text) ==
    IF Len(text) = 0 THEN 0
    ELSE 10 * DigitsValue(SubSeq(text, 1, Len(text) - 1)) + DigitValue(text[Len(text)])

HasSign(text) == Len(text) > 0 /\ text[1] \in {"-", "+"}

\* str::parse::<i64>() is Ok: an optional sign and at least one digit
parse_ok(text) == IF HasSign(text) THEN IsDigits(Tail(text)) ELSE IsDigits(text)

\* the value of str::parse::<i64>(); str::parse::<f64>() on the same texts
parse(text) ==
    IF HasSign(text)
    THEN (IF text[1] = "-" THEN 0 - DigitsValue(Tail(text)) ELSE DigitsValue(Tail(text)))
    ELSE DigitsValue(text)

\* line.split(" ") followed by data.retain(|s| !s.is_empty())
Data(line) == SelectSeq(line, LAMBDA text : Len(text) > 0)

UsizeModulus == 2 ^ UsizeWidth

\* the exact value of the expression u_1 (u_2, u_3) for the parsed index i
\* and len = vertices.len()
IndexValue(i, len) == IF i < 0 THEN len + 1 - (0 - i) ELSE i - 1

\* the usize subtraction of that expression overflows
IndexOverflows(i, len) == IndexValue(i, len) < 0

\* the usize that u_1 (u_2, u_3) holds when the overflow is not checked
IndexUsize(i, len) == IndexValue(i, len) % UsizeModulus

\* the texts of the model's lines
TextV == <<"v">>
TextF == <<"f">>

\* a line of the file that was read
Text(line) == [err |-> FALSE, text |-> line]

\* an item of the iterator that is an io::Error
ReadError == [err |-> TRUE, text |-> <<>>]

FaceLine(a, b, c) == Text(<<TextF, a, b, c>>)

\* the k-th vertex line of the leading vertex block
VertexLine(k) == Text(<<TextV, <<"1">>, <<"-", "2">>, <<DigitChar[k % 10]>> >>)

ObjLines ==
    { Text(<<TextV, <<"0">>, <<"+", "1">>, <<"1", "0">> >>),
      Text(<<TextV, <<"1">>, <<"2">> >>),
      Text(<<TextV, <<"x">>, <<"0">>, <<"0">> >>),
      Text(<<TextV, <<"1">>, <<>>, <<"2">>, <<"3">>, <<"4">> >>),
      FaceLine(<<"1">>, <<"2">>, <<"3">>),
      FaceLine(<<"1">>, <<"1">>, <<"1">>),
      FaceLine(<<"4">>, <<"2">>, <<"1">>),
      FaceLine(<<"-", "1">>, <<"-", "2">>, <<"-", "3">>),
      FaceLine(<<"-", "2">>, <<"-", "3">>, <<"-", "4">>),
      FaceLine(<<"-", "2">>, <<"-", "2">>, <<"1">>),
      FaceLine(<<"0">>, <<"1">>, <<"2">>),
      FaceLine(<<"1">>, <<"-", "9">>, <<"2">>),
      FaceLine(<<"1">>, <<"2", "/", "2">>, <<"3">>),
      Text(<<TextF, <<>>, <<"2">>, <<>>, <<"1">>, <<"1">> >>),
      Text(<<TextF, <<"1">>, <<"2">> >>),
      Text(<<TextF, <<"1">>, <<"2">>, <<"3">>, <<"4">> >>),
      Text(<<TextF, <<"1">>, <<"2">>, <<"3">>, <<"4">>, <<"5">> >>),
      Text(<<<<"#">>, <<"f">>, <<"9">> >>),
      Text(<<<<"g">> >>),
      Text(<<TextV>>),
      Text(<<>>),
      ReadError }

ObjFiles ==
    { [k \in 1..n |-> VertexLine(k)] \o tail :
        n \in 0..MaxVerts,
        tail \in UNION { [1..k -> ObjLines] : k \in 0..MaxTail } }

LoaderIdle ==
    /\ lines = <<>>
    /\ line_no = 0
    /\ vertices = <<>>
    /\ indices = <<>>
    /\ face_log = <<>>
    /\ overflow_checks = FALSE
    /\ load_result = "idle"

\* entry of load_obj: read_lines succeeded
LoaderInit ==
    /\ lines \in ObjFiles
    /\ line_no = 0
    /\ vertices = <<>>
    /\ indices = <<>>
    /\ face_log = <<>>
    /\ overflow_checks \in BOOLEAN
    /\ load_result = "running"

\* the loop has an item to take
LoadTakes == load_result = "running" /\ line_no < Len(lines)

Item == lines[line_no + 1]

\* faulty variant of LoadEnds: the loop goes on after the error
LoadGoesOn(how) ==
    /\ line_no' = line_no + 1
    /\ UNCHANGED <<lines, vertices, indices, face_log, overflow_checks, load_result>>
    /\ UNCHANGED otherThanLoader

\* load_obj returns or panics on the current item
LoadEnds(how) ==
    /\ load_result' = how
    /\ line_no' = line_no + 1
    /\ UNCHANGED <<lines, vertices, indices, face_log, overflow_checks>>
    /\ UNCHANGED otherThanLoader

\* let line = line?; on an io::Error
LoadReadError ==
    /\ LoadTakes
    /\ Item.err
    /\ LoadEnds("Io")

\* the two `continue`s: at most one text, or a first text other than v, f
LoadSkip ==
    /\ LoadTakes
    /\ ~Item.err
    /\ LET data == Data(Item.text)
       IN  IF Len(data) <= 1 THEN TRUE ELSE data[1] \notin {TextV, TextF}
    /\ line_no' = line_no + 1
    /\ UNCHANGED <<lines, vertices, indices, face_log, overflow_checks, load_result>>
    /\ UNCHANGED otherThanLoader

\* "v" with three coordinates that parse
LoadVertex ==
    /\ LoadTakes
    /\ ~Item.err
    /\ LET data == Data(Item.text)
       IN  /\ Len(data) >= 4
           /\ data[1] = TextV
           /\ \A k \in 2..4 : parse_ok(data[k])
           /\ vertices' = Append(vertices, <<parse(data[2]), parse(data[3]), parse(data[4])>>)
    /\ line_no' = line_no + 1
    /\ UNCHANGED <<lines, indices, face_log, overflow_checks, load_result>>
    /\ UNCHANGED otherThanLoader

\* "v" with fewer than three coordinates, or with one that does not parse
LoadVertexError ==
    /\ LoadTakes
    /\ ~Item.err
    /\ LET data == Data(Item.text)
       IN  /\ Len(data) > 1
           /\ data[1] = TextV
           /\ \/ Len(data) < 4 /\ LoadEnds("Vert")
              \/ /\ Len(data) >= 4
                 /\ \E k \in 2..4 : ~parse_ok(data[k])
                 /\ LoadEnds("ParseFloat")

\* the parsed i_1, i_2, i_3 of a face line with three indices
FaceIndices(data) == <<parse(data[2]), parse(data[3]), parse(data[4])>>

\* a face line with three indices that parse
ParsedTri(data) ==
    /\ Len(data) = 4
    /\ data[1] = TextF
    /\ \A k \in 2..4 : parse_ok(data[k])

\* evaluating u_1, u_2, u_3 panics
TriPanics(data) ==
    /\ overflow_checks
    /\ \E k \in 1..3 : IndexOverflows(FaceIndices(data)[k], Len(vertices))

\* u_1, u_2, u_3
TriUsizes(data) ==
    [k \in 1..3 |-> IndexUsize(FaceIndices(data)[k], Len(vertices))]

\* "f" with three indices inside the current range
LoadFace ==
    /\ LoadTakes
    /\ ~Item.err
    /\ LET data == Data(Item.text)
       IN  /\ ParsedTri(data)
           /\ ~TriPanics(data)
           /\ LET u == TriUsizes(data)
              IN  /\ \A k \in 1..3 : u[k] < Len(vertices)
                  /\ indices' = Append(indices, <<u[1], u[3], u[2]>>)
                  /\ face_log' = Append(face_log,
                         [i |-> FaceIndices(data), len |-> Len(vertices)])
    /\ line_no' = line_no + 1
    /\ UNCHANGED <<lines, vertices, overflow_checks, load_result>>
    /\ UNCHANGED otherThanLoader

\* "f" that returns an Err
LoadFaceError ==
    /\ LoadTakes
    /\ ~Item.err
    /\ LET data == Data(Item.text)
       IN  /\ Len(data) > 1
           /\ data[1] = TextF
           /\ \/ Len(data) < 4 /\ LoadEnds("Face")
              \/ Len(data) > 5 /\ LoadEnds("Face")
              \/ /\ Len(data) = 4
                 /\ \E k \in 2..4 : ~parse_ok(data[k])
                 /\ LoadEnds("ParseInt")
              \/ /\ ParsedTri(data)
                 /\ ~TriPanics(data)
                 /\ \E k \in 1..3 : TriUsizes(data)[k] >= Len(vertices)
                 /\ LoadEnds("Face")

\* "f" that panics: todo!() for four indices, or an overflow in u_1..u_3
LoadFacePanic ==
    /\ LoadTakes
    /\ ~Item.err
    /\ LET data == Data(Item.text)
       IN  /\ Len(data) > 1
           /\ data[1] = TextF
           /\ \/ Len(data) = 5
              \/ ParsedTri(data) /\ TriPanics(data)
    /\ LoadEnds("panic")

\* the loop is over: Ok(Obj { vertices, indices })
LoadReturn ==
    /\ load_result = "running"
    /\ line_no = Len(lines)
    /\ load_result' = "Ok"
    /\ UNCHANGED <<lines, line_no, vertices, indices, face_log, overflow_checks>>
    /\ UNCHANGED otherThanLoader

(***************************************************************************)
(* main.rs: main.  The command line is a sequence of texts.                *)
(***************************************************************************)
\* the number of digits up to which an i32 always holds the value
I32_DIGITS == 9

\* str::parse::<i32>() is Ok; the texts of the model have at most
\* I32_DIGITS digits or too many for an i32
parse_i32_ok(text) ==
    /\ parse_ok(text)
    /\ Len(text) - (IF HasSign(text) THEN 1 ELSE 0) <= I32_DIGITS

\* the scenes main can render
Scenes1to4 == 1..4

ProgramName == <<"r", "t">>

SelectorTexts ==
    { <<"0">>, <<"1">>, <<"2">>, <<"3">>, <<"4">>, <<"5">>,
      <<"0", "3">>, <<"+", "2">>, <<"-", "1">>, <<"4", "2">>,
      <<"a", "b">>, <<"2", "x">>, <<"-">>, <<>>,
      <<"9", "9", "9", "9", "9", "9", "9", "9", "9", "9", "9">> }

RenderTypeTexts ==
    { <<"a", "n", "i", "m", "a", "t", "e">>, <<"s", "t", "a", "t", "i", "c">>,
      <<"1">> }

CommandLines ==
    {<<ProgramName>>}
    \cup { <<ProgramName, sel>> : sel \in SelectorTexts }
    \cup { <<ProgramName, sel, ty>> : sel \in SelectorTexts, ty \in RenderTypeTexts }

MainIdle ==
    /\ args = <<>>
    /\ render_opt = 0
    /\ rendered = <<>>
    /\ exit_code = -1
    /\ main_pc = "idle"

\* entry of main
MainInit ==
    /\ args \in CommandLines
    /\ render_opt = 0
    /\ rendered = <<>>
    /\ exit_code = -1
    /\ main_pc = "args"

\* let render_opt = if args.len() < 2 { 0 } else { args[1].parse().unwrap_or(1) }
MainRenderOpt ==
    /\ main_pc = "args"
    /\ render_opt' = IF Len(args) < 2 THEN 0
                     ELSE IF parse_i32_ok(args[2]) THEN parse(args[2])
                     ELSE 1
    /\ main_pc' = "match"
    /\ UNCHANGED <<args, rendered, exit_code>>
    /\ UNCHANGED otherThanMain

\* the arms 1, 2, 3, 4 of the match: render_scene_N() runs and returns
MainRenderScene ==
    /\ main_pc = "match"
    /\ render_opt \in Scenes1to4
    /\ rendered' = Append(rendered, render_opt)
    /\ main_pc' = "end"
    /\ UNCHANGED <<args, render_opt, exit_code>>
    /\ UNCHANGED otherThanMain

\* the arm _ of the match: std::process::exit(1)
MainInvalidScene ==
    /\ main_pc = "match"
    /\ render_opt \notin Scenes1to4
    /\ exit_code' = 1
    /\ main_pc' = "exited"
    /\ UNCHANGED <<args, render_opt, rendered>>
    /\ UNCHANGED otherThanMain

\* main returns
MainReturn ==
    /\ main_pc = "end"
    /\ exit_code' = 0
    /\ main_pc' = "exited"
    /\ UNCHANGED <<args, render_opt, rendered>>
    /\ UNCHANGED otherThanMain

(***************************************************************************)
(* vec.rs: colours, and material.rs                                        *)
(***************************************************************************)
\* colors::BLACK and colors::WHITE
BLACK == <<0, 0, 0>>

WHITE == <<1, 1, 1>>

\* Mul<Vec3> for Vec3 / MulAssign: componentwise product
VMul(a, b) == <<a[1] * b[1], a[2] * b[2], a[3] * b[3]>>

\* AddAssign<Vec3> for Vec3: componentwise sum
VAdd(a, b) == <<a[1] + b[1], a[2] + b[2], a[3] + b[3]>>

\* The materials of the scene.  Component values are whole numbers, which
\* f64 multiplies and adds exactly.
Materials ==
    { [kind |-> "DiffuseLambert", albedo |-> <<2, 1, 1>>, intensity |-> 0],
      [kind |-> "Reflective",     albedo |-> <<1, 2, 1>>, intensity |-> 0],
      [kind |-> "Translucent",    albedo |-> <<1, 1, 1>>, intensity |-> 0],
      [kind |-> "Emissive",       albedo |-> <<1, 1, 2>>, intensity |-> 3] }

\* the values the caller's background function returns for escaping rays
BgColors == { <<1, 1, 1>>, <<0, 1, 2>> }

\* MaterialBase::attenuation: the albedo of every material
attenuation(m) == m.albedo

\* MaterialBase::emit: black by default, intensity * (1,1,1) for Emissive
emit(m) ==
    IF m.kind = "Emissive"
       THEN <<m.intensity, m.intensity, m.intensity>>
       ELSE BLACK

\* MaterialBase::scatter: whether a scattered ray can come back (TRUE) and
\* whether None can (FALSE).  DiffuseLambert and Translucent always
\* scatter, Reflective scatters when the sampled direction leaves the
\* surface, Emissive keeps the default None.
ScatterOutcomes(m) ==
    CASE m.kind = "DiffuseLambert" -> {TRUE}
      [] m.kind = "Translucent"    -> {TRUE}
      [] m.kind = "Reflective"     -> {TRUE, FALSE}
      [] OTHER                     -> {FALSE}

(***************************************************************************)
(* vec.rs: Ray::get_color                                                  *)
(***************************************************************************)
\* faulty variant of LoopCond: one iteration too many
LoopCondInclusive(i, d) == i <= d

\* `for _ in 0..depth`: the body is entered while fewer than depth
\* iterations were begun
LoopCond(i, d) == i < d

\* faulty variant of MissNextPc: the `break` after a miss is lost
MissNoBreak == "loop"

\* `None => { color *= bg(t); break; }`
MissNextPc == "done"

\* `None => { color *= attenuation * emit; break; }`
NoScatterNextPc == "done"

\* colour after a miss
OnMiss(c, bgc) == VMul(c, bgc)

\* colour after a hit whose material returns no scattered ray
OnNoScatter(c, m) == VMul(c, VMul(attenuation(m), emit(m)))

\* colour after a hit whose material scatters
OnScatter(c, m) == VAdd(VMul(c, attenuation(m)), emit(m))

IntegIdle ==
    /\ ipc = "idle"
    /\ depth = 0
    /\ iter = 0
    /\ color = WHITE
    /\ curMat = 0
    /\ queries = 0
    /\ scatterCalls = 0
    /\ ended = FALSE
    /\ emissiveHit = FALSE
    /\ refL = BLACK
    /\ refBeta = WHITE

\* entry of get_color for one primary ray: `let mut color = colors::WHITE`
IntegInit ==
    /\ ipc = "loop"
    /\ depth \in 0..MaxDepth
    /\ iter = 0
    /\ color = WHITE
    /\ curMat = 0
    /\ queries = 0
    /\ scatterCalls = 0
    /\ ended = FALSE
    /\ emissiveHit = FALSE
    /\ refL = BLACK
    /\ refBeta = WHITE

\* world.is_hit(...) returns None
QueryMiss ==
    /\ ipc = "loop"
    /\ LoopCond(iter, depth)
    /\ \E bgc \in BgColors :
          /\ color' = OnMiss(color, bgc)
          /\ refL' = VAdd(refL, VMul(refBeta, bgc))
    /\ iter' = iter + 1
    /\ queries' = queries + 1
    /\ ended' = TRUE
    /\ ipc' = MissNextPc
    /\ UNCHANGED <<depth, curMat, scatterCalls, emissiveHit, refBeta>>
    /\ UNCHANGED otherThanInteg

\* world.is_hit(...) returns Some(hit)
QueryHit ==
    /\ ipc = "loop"
    /\ LoopCond(iter, depth)
    /\ \E m \in Materials :
          /\ curMat' = m
          /\ emissiveHit' = (emissiveHit \/ emit(m) # BLACK)
          /\ refL' = VAdd(refL, VMul(refBeta, VMul(attenuation(m), emit(m))))
    /\ iter' = iter + 1
    /\ queries' = queries + 1
    /\ ipc' = "hit"
    /\ UNCHANGED <<depth, color, scatterCalls, ended, refBeta>>
    /\ UNCHANGED otherThanInteg

\* hit.material.scatter(...) returns None
ScatterNone ==
    /\ ipc = "hit"
    /\ FALSE \in ScatterOutcomes(curMat)
    /\ color' = OnNoScatter(color, curMat)
    /\ scatterCalls' = scatterCalls + 1
    /\ ended' = TRUE
    /\ ipc' = NoScatterNextPc
    /\ UNCHANGED <<depth, iter, curMat, queries, emissiveHit, refL, refBeta>>
    /\ UNCHANGED otherThanInteg

\* hit.material.scatter(...) returns Some(scattered)
ScatterSome ==
    /\ ipc = "hit"
    /\ TRUE \in ScatterOutcomes(curMat)
    /\ color' = OnScatter(color, curMat)
    /\ refBeta' = VMul(refBeta, attenuation(curMat))
    /\ scatterCalls' = scatterCalls + 1
    /\ ipc' = "loop"
    /\ UNCHANGED <<depth, iter, curMat, queries, ended, emissiveHit, refL>>
    /\ UNCHANGED otherThanInteg

\* the range 0..depth is exhausted: `color` is returned
LoopExit ==
    /\ ipc = "loop"
    /\ ~LoopCond(iter, depth)
    /\ ipc' = "done"
    /\ UNCHANGED <<depth, iter, color, curMat, queries, scatterCalls, ended,
                   emissiveHit, refL, refBeta>>
    /\ UNCHANGED otherThanInteg

(***************************************************************************)
(* Numbers.  Points and vectors have whole-number components in length     *)
(* units of 0.5; ray parameters (t) and everything compared with them are  *)
(* in units of FLOAT_THRESHOLD = 0.0001, so 1.0 is 10000 and a length unit *)
(* is 5000.  f64::INFINITY is the value Inf; NaN is the value of 0 * inf   *)
(* and inf - inf and compares false with everything.                       *)
(***************************************************************************)
\* math.rs: const FLOAT_THRESHOLD: f64 = 0.0001
FLOAT_THRESHOLD == 1

\* the t_min of get_color's world.is_hit(&ray, 0.001, f64::INFINITY)
T_MIN_EPS == 10

\* f64::INFINITY
Inf == 1000000000

NaN == Inf + Inf

\* t units per length unit
LenUnit == 10000 \div 2

\* `<` and `>` on f64: false when an operand is NaN
FLt(a, b) == a # NaN /\ b # NaN /\ a < b

FGt(a, b) == FLt(b, a)

\* f64 subtraction
FSub(a, b) ==
    IF a = NaN \/ b = NaN THEN NaN
    ELSE IF a = Inf THEN (IF b = Inf THEN NaN ELSE Inf)
    ELSE IF a = -Inf THEN (IF b = -Inf THEN NaN ELSE -Inf)
    ELSE IF b = Inf THEN -Inf
    ELSE IF b = -Inf THEN Inf
    ELSE a - b

\* f64::abs
FAbs(a) == IF a = NaN THEN NaN ELSE IF a < 0 THEN -a ELSE a

\* the product inv * y of a reciprocal direction component (1, -1 or inf)
\* and a finite value
FMul(inv, y) ==
    IF inv = Inf
       THEN (IF y > 0 THEN Inf ELSE IF y < 0 THEN -Inf ELSE NaN)
       ELSE inv * y

\* math::f_eq: (lhs - rhs).abs() <= FLOAT_THRESHOLD
f_eq(lhs, rhs) ==
    LET d == FAbs(FSub(lhs, rhs)) IN d # NaN /\ d <= FLOAT_THRESHOLD

\* math::f_leq: lhs < rhs || f_eq(lhs, rhs)
f_leq(lhs, rhs) == FLt(lhs, rhs) \/ f_eq(lhs, rhs)

\* math::f_geq: lhs > rhs || f_eq(lhs, rhs)
f_geq(lhs, rhs) == FGt(lhs, rhs) \/ f_eq(lhs, rhs)

IMax(a, b) == IF a > b THEN a ELSE b

IMin(a, b) == IF a < b THEN a ELSE b

IAbs(a) == IF a < 0 THEN -a ELSE a

RECURSIVE Gcd(_, _)
Gcd(a, b) == IF b = 0 THEN a ELSE Gcd(b, a % b)

\* floor of the square root
ISqrt(n) == CHOOSE s \in 0..n : s * s <= n /\ (s + 1) * (s + 1) > n

(***************************************************************************)
(* vec.rs: Vec3                                                            *)
(***************************************************************************)
\* Vec3::O
VZero == <<0, 0, 0>>

VSub(a, b) == <<a[1] - b[1], a[2] - b[2], a[3] - b[3]>>

VScale(k, a) == <<k * a[1], k * a[2], k * a[3]>>

VNeg(a) == <<-a[1], -a[2], -a[3]>>

\* Vec3::dot
Dot(a, b) == a[1] * b[1] + a[2] * b[2] + a[3] * b[3]

\* Vec3::cross
Cross(a, b) ==
    <<a[2] * b[3] - a[3] * b[2],
      a[3] * b[1] - a[1] * b[3],
      a[1] * b[2] - a[2] * b[1]>>

\* Vec3::unit keeps the direction of a vector; the model keeps the
\* direction as the shortest whole-number vector (a positive multiple, so
\* every sign test and every ratio of dot products is unchanged)
Direction(v) ==
    LET g == Gcd(Gcd(IAbs(v[1]), IAbs(v[2])), IAbs(v[3]))
    IN  IF g = 0 THEN <<0, 0, 0>> ELSE <<v[1] \div g, v[2] \div g, v[3] \div g>>

(***************************************************************************)
(* geom/hit.rs: Hit and AxisAlignedBoundingBox                             *)
(***************************************************************************)
\* Option<Hit>: None, and Some(hit) with its t and the primitive it is on
NoHit == [some |-> FALSE, t |-> 0, id |-> 0]

SomeHit(t, id) == [some |-> TRUE, t |-> t, id |-> id]

\* AxisAlignedBoundingBox::new: center = 0.5 * bbl + 0.5 * ftr
AABB(ftr_corner, bbl_corner) ==
    [ftr_corner |-> ftr_corner, bbl_corner |-> bbl_corner]

\* AxisAlignedBoundingBox::center (corner sums of the scenes are even)
center(box) ==
    <<(box.ftr_corner[1] + box.bbl_corner[1]) \div 2,
      (box.ftr_corner[2] + box.bbl_corner[2]) \div 2,
      (box.ftr_corner[3] + box.bbl_corner[3]) \div 2>>

\* AxisAlignedBoundingBox::empty
empty == AABB(<<-Inf, -Inf, -Inf>>, <<Inf, Inf, Inf>>)

RECURSIVE UnionFold(_, _, _)
UnionFold(boxes, i, acc) ==
    IF i > Len(boxes) THEN acc
    ELSE UnionFold(boxes, i + 1,
            AABB(<<IMax(acc.ftr_corner[1], boxes[i].ftr_corner[1]),
                   IMax(acc.ftr_corner[2], boxes[i].ftr_corner[2]),
                   IMax(acc.ftr_corner[3], boxes[i].ftr_corner[3])>>,
                 <<IMin(acc.bbl_corner[1], boxes[i].bbl_corner[1]),
                   IMin(acc.bbl_corner[2], boxes[i].bbl_corner[2]),
                   IMin(acc.bbl_corner[3], boxes[i].bbl_corner[3])>>))

\* faulty variant of union: only the first box counts
union_first(boxes) ==
    IF Len(boxes) = 0 THEN AABB(VZero, VZero) ELSE boxes[1]

\* faulty variant of union: only the last box counts
union_last(boxes) ==
    IF Len(boxes) = 0 THEN AABB(VZero, VZero) ELSE boxes[Len(boxes)]

\* AxisAlignedBoundingBox::union
union(boxes) ==
    IF Len(boxes) = 0 THEN AABB(VZero, VZero) ELSE UnionFold(boxes, 1, empty)

\* AxisAlignedBoundingBox::surface_area, in squared length units
surface_area(box) ==
    LET size == VSub(box.ftr_corner, box.bbl_corner)
    IN  2 * size[1] * size[2] + 2 * size[2] * size[3] + 2 * size[1] * size[3]

\* AxisAlignedBoundingBox::volume, in cubed length units
volume(box) ==
    LET size == VSub(box.ftr_corner, box.bbl_corner)
    IN  size[1] * size[2] * size[3]

\* AxisAlignedBoundingBox::largest_extent_axis (extents are whole numbers
\* of length units, on which f_geq is >=)
largest_extent_axis(box) ==
    LET extent == VSub(box.ftr_corner, box.bbl_corner)
    IN  IF extent[1] >= IMax(extent[2], extent[3]) THEN 1
        ELSE IF extent[2] >= extent[3] THEN 2
        ELSE 3

\* 1.0 / ray.dir[coord] for a direction component of -1, 0 or 1
DirInverse(d) == IF d = 0 THEN Inf ELSE d

NoInterval == [some |-> FALSE, t_min |-> 0, t_max |-> 0]

RECURSIVE SlabFrom(_, _, _, _, _)
SlabFrom(box, r, coord, t_lo, t_hi) ==
    IF coord > 3 THEN [some |-> TRUE, t_min |-> t_lo, t_max |-> t_hi]
    ELSE LET inv  == DirInverse(r.dir[coord])
             a    == FMul(inv, (box.bbl_corner[coord] - r.origin[coord]) * LenUnit)
             b    == FMul(inv, (box.ftr_corner[coord] - r.origin[coord]) * LenUnit)
             swap == FLt(inv, 0)
             t0   == IF swap THEN b ELSE a
             t1   == IF swap THEN a ELSE b
             lo   == IF FGt(t0, t_lo) THEN t0 ELSE t_lo
             hi   == IF FLt(t1, t_hi) THEN t1 ELSE t_hi
         IN  IF f_leq(hi, lo) THEN NoInterval
             ELSE SlabFrom(box, r, coord + 1, lo, hi)

\* AxisAlignedBoundingBox::ray_intersects: the slab test, axis by axis
ray_intersects(box, r, t_lo, t_hi) == SlabFrom(box, r, 1, t_lo, t_hi)

(***************************************************************************)
(* geom/primitives.rs: Sphere and Triangle                                 *)
(***************************************************************************)
Sphere(id, c, radius) ==
    [kind |-> "Sphere", id |-> id, p |-> c, q |-> c, r |-> c, radius |-> radius]

Triangle(id, a, b, c) ==
    [kind |-> "Triangle", id |-> id, p |-> a, q |-> b, r |-> c, radius |-> 0]

\* Ray::at, scaled: the point origin + (num / den) * dir times den
AtScaled(r, num, den) == <<den * r.origin[1] + num * r.dir[1],
                           den * r.origin[2] + num * r.dir[2],
                           den * r.origin[3] + num * r.dir[3]>>

\* Hittable for Sphere
Sphere_is_hit(s, r, t_lo, t_hi) ==
    LET vec_to_center   == VSub(r.origin, s.p)
        center_dot_self == Dot(r.dir, vec_to_center)
        discriminant    == center_dot_self * center_dot_self
                           - (Dot(vec_to_center, vec_to_center)
                              - s.radius * s.radius)
    IN  IF discriminant < 0 THEN NoHit
        ELSE LET sq == ISqrt(discriminant)
                 t1 == (-center_dot_self - sq) * LenUnit
                 t2 == (-center_dot_self + sq) * LenUnit
             IN  IF FLt(t1, t_hi) /\ FGt(t1, t_lo) THEN SomeHit(t1, s.id)
                 ELSE IF FLt(t2, t_hi) /\ FGt(t2, t_lo) THEN SomeHit(t2, s.id)
                 ELSE NoHit

\* Bounded for Sphere
Sphere_bounding_box(s) ==
    AABB(<<s.p[1] + s.radius, s.p[2] + s.radius, s.p[3] + s.radius>>,
         <<s.p[1] - s.radius, s.p[2] - s.radius, s.p[3] - s.radius>>)

\* Hittable for Triangle.  With normal n and den = dir . n, t is
\* ((a - origin) . n) / den; the three edge tests are made on den * P and
\* their signs corrected by the sign of den.
Triangle_is_hit(tri, r, t_lo, t_hi) ==
    LET a   == tri.p
        b   == tri.q
        c   == tri.r
        ab  == VSub(b, a)
        ac  == VSub(c, a)
        bc  == VSub(c, b)
        normal == Direction(Cross(ab, ac))
        den == Dot(r.dir, normal)
    IN  IF den = 0 THEN NoHit
        ELSE LET num == Dot(VSub(a, r.origin), normal)
                 sgn == IF den > 0 THEN 1 ELSE -1
                 P   == AtScaled(r, num, den)
                 e1  == sgn * Dot(Cross(ab, VSub(P, VScale(den, a))), normal)
                 e2  == sgn * Dot(Cross(bc, VSub(P, VScale(den, b))), normal)
                 e3  == sgn * Dot(Cross(VNeg(ac), VSub(P, VScale(den, c))), normal)
                 t   == (sgn * num * LenUnit) \div IAbs(den)
             IN  IF e1 < 0 \/ e2 < 0 \/ e3 < 0 THEN NoHit
                 ELSE IF FLt(t, t_hi) /\ FGt(t, t_lo) THEN SomeHit(t, tri.id)
                 ELSE NoHit

\* Bounded for Triangle: the componentwise max and min of the corners
Triangle_bounding_box(tri) ==
    AABB(<<IMax(tri.p[1], IMax(tri.q[1], tri.r[1])),
           IMax(tri.p[2], IMax(tri.q[2], tri.r[2])),
           IMax(tri.p[3], IMax(tri.q[3], tri.r[3]))>>,
         <<IMin(tri.p[1], IMin(tri.q[1], tri.r[1])),
           IMin(tri.p[2], IMin(tri.q[2], tri.r[2])),
           IMin(tri.p[3], IMin(tri.q[3], tri.r[3]))>>)

\* dyn BoundedHittable: dispatch on the primitive
is_hit(obj, r, t_lo, t_hi) ==
    IF obj.kind = "Sphere" THEN Sphere_is_hit(obj, r, t_lo, t_hi)
    ELSE Triangle_is_hit(obj, r, t_lo, t_hi)

bounding_box(obj) ==
    IF obj.kind = "Sphere" THEN Sphere_bounding_box(obj)
    ELSE Triangle_bounding_box(obj)

\* Bounded::centroid: the centre of the bounding box
centroid(obj) == center(bounding_box(obj))

\* AxisAlignedBoundingBox::union_from_objs
union_from_objs(objs) == union([i \in 1..Len(objs) |-> bounding_box(objs[i])])

\* AxisAlignedBoundingBox::union_from_points
union_from_points(points) ==
    union([i \in 1..Len(points) |-> AABB(points[i], points[i])])

(***************************************************************************)
(* accel/bvh.rs: BVH::new and BVH::build                                   *)
(***************************************************************************)
\* const NUM_BUCKETS: usize = 12
NUM_BUCKETS == 12

\* faulty variant of add_leaf_node: the last index of the range is lost
add_leaf_node_short(ns, object_indices, bbox) ==
    Append(ns, [bounding_box     |-> bbox,
                split_axis       |-> 0,
                object_indices   |-> <<object_indices[1], object_indices[2] - 1>>,
                children_indices |-> <<>>])

\* BVH::add_leaf_node: the node is pushed, its index is nodes.len() - 1
add_leaf_node(ns, object_indices, bbox) ==
    Append(ns, [bounding_box     |-> bbox,
                split_axis       |-> 0,
                object_indices   |-> object_indices,
                children_indices |-> <<>>])

\* faulty variant of add_interior_node: the right child index is read
\* after the push
add_interior_node_late(ns, split_axis, children_indices) ==
    LET left  == IF children_indices[1] < Len(ns)
                    THEN <<ns[children_indices[1] + 1].bounding_box>> ELSE <<>>
        right == IF children_indices[2] < Len(ns)
                    THEN <<ns[children_indices[2] + 1].bounding_box>> ELSE <<>>
    IN  Append(ns, [bounding_box     |-> union(left \o right),
                    split_axis       |-> split_axis,
                    object_indices   |-> <<>>,
                    children_indices |-> <<children_indices[1], Len(ns)>>])

\* BVH::add_interior_node: the box is the union of the children's boxes
add_interior_node(ns, split_axis, children_indices) ==
    LET left  == IF children_indices[1] < Len(ns)
                    THEN <<ns[children_indices[1] + 1].bounding_box>> ELSE <<>>
        right == IF children_indices[2] < Len(ns)
                    THEN <<ns[children_indices[2] + 1].bounding_box>> ELSE <<>>
    IN  Append(ns, [bounding_box     |-> union(left \o right),
                    split_axis       |-> split_axis,
                    object_indices   |-> <<>>,
                    children_indices |-> children_indices])

\* (NUM_BUCKETS * centroids_bounds.point_offset(centroid)[split_axis]) as
\* usize, NUM_BUCKETS replaced by NUM_BUCKETS - 1: the bucket of an object
BucketOf(cb, obj, axis) ==
    LET k == centroid(obj)[axis] - cb.bbl_corner[axis]
        e == cb.ftr_corner[axis] - cb.bbl_corner[axis]
        b == IF e > 0 THEN (NUM_BUCKETS * k) \div e ELSE NUM_BUCKETS * k
    IN  IF b = NUM_BUCKETS THEN NUM_BUCKETS - 1 ELSE b

\* the objects of a slice whose bucket is <= i, and the others
BucketsUpTo(objs, cb, axis, i) ==
    SelectSeq(objs, LAMBDA o : BucketOf(cb, o, axis) <= i)

BucketsAfter(objs, cb, axis, i) ==
    SelectSeq(objs, LAMBDA o : BucketOf(cb, o, axis) > i)

\* bucket_costs[i] is 0.125 + SplitCost / bounds.surface_area(): the
\* numerator obj_counts.0 * SA(left) + obj_counts.1 * SA(right).  Bucket 0
\* holds the least centroid and bucket NUM_BUCKETS - 1 the greatest, so
\* both sides hold an object.
SplitCost(objs, cb, axis, i) ==
    LET l == BucketsUpTo(objs, cb, axis, i)
        r == BucketsAfter(objs, cb, axis, i)
    IN  Len(l) * surface_area(union_from_objs(l))
        + Len(r) * surface_area(union_from_objs(r))

\* bucket_costs, one entry per split after bucket i (0 .. NUM_BUCKETS - 2)
SplitCosts(objs, cb, axis) ==
    [i \in 0..(NUM_BUCKETS - 2) |-> SplitCost(objs, cb, axis, i)]

\* bucket_costs.iter().enumerate().min_by(..): the first least cost
MinCostBucket(bucket_costs) ==
    CHOOSE i \in DOMAIN bucket_costs :
        /\ \A j \in DOMAIN bucket_costs : bucket_costs[i] <= bucket_costs[j]
        /\ \A j \in DOMAIN bucket_costs :
              j < i => bucket_costs[j] > bucket_costs[i]

\* min_cost.1 < &leaf_cost, i.e. 0.125 + cost / SA(bounds) < num_objs
SplitIsCheaper(cost, bounds, num_objs) ==
    8 * cost + surface_area(bounds) < 8 * num_objs * surface_area(bounds)

\* BVH::build(start, end) on the node array ns: the node array afterwards;
\* the index build returns is that of its last node.  The partitions that
\* build computes are not stored back into self.objects, so the object
\* array is the same before and after.
RECURSIVE build(_, _, _, _)
build(objs_all, ns, start, end) ==
    LET objs     == SubSeq(objs_all, start + 1, end)
        num_objs == end - start
        bounds   == union_from_objs(objs)
    IN  IF num_objs <= 4 THEN add_leaf_node(ns, <<start, end>>, bounds)
        ELSE
        LET centroids_bounds ==
                union_from_points([i \in 1..num_objs |-> centroid(objs[i])])
            split_axis == largest_extent_axis(centroids_bounds)
            half       == (start + end) \div 2
        IN  IF volume(centroids_bounds) = 0
               THEN add_leaf_node(ns, <<start, end>>, bounds)
            ELSE
            LET bucket_costs == SplitCosts(objs, centroids_bounds, split_axis)
                sah == MinCostBucket(bucket_costs)
                leafBySah ==
                    /\ num_objs > 8
                    /\ ~SplitIsCheaper(bucket_costs[sah], bounds, num_objs)
                mid == IF num_objs <= 8 THEN half
                       ELSE start + Len(BucketsUpTo(objs, centroids_bounds,
                                                    split_axis, sah))
            IN  IF leafBySah
                   THEN add_leaf_node(ns, <<start, end>>, bounds)
                ELSE
                LET withLeft  == build(objs_all, ns, start, mid)
                    withRight == build(objs_all, withLeft, mid, end)
                IN  add_interior_node(withRight, split_axis,
                        <<Len(withLeft) - 1, Len(withRight) - 1>>)

\* BVH::new: nodes is empty, root = build(0, objects.len())
BVH_new(objs) ==
    LET ns == build(objs, <<>>, 0, Len(objs))
    IN  [objects |-> objs, nodes |-> ns, root |-> Len(ns) - 1]

(***************************************************************************)
(* Scenes and rays of the model.  Coordinates are even numbers of length   *)
(* units (whole multiples of 1.0), radii are 2 (1.0) and rays run along    *)
(* an axis: box centres are whole, the discriminant of a sphere is a       *)
(* perfect square and every t is a whole number of length units.           *)
(***************************************************************************)
Palette ==
    << Triangle(1, <<-2, -2, 4>>, <<2, -2, 4>>, <<0, 2, 4>>),
       Triangle(2, <<4, -2, 4>>, <<8, -2, 4>>, <<6, 2, 4>>),
       Sphere(3, <<0, 0, 0>>, 2),
       Sphere(4, <<0, 0, -8>>, 2),
       Sphere(5, <<8, 4, -4>>, 2),
       Triangle(6, <<6, 2, 2>>, <<10, 2, 2>>, <<8, 6, 6>>),
       Sphere(7, <<-8, -4, 4>>, 2),
       Triangle(8, <<-4, -2, -2>>, <<-4, 2, -2>>, <<-4, 0, 2>>) >>

\* a scene: at most MaxPrims objects of the palette, in palette order
Scenes == {S \in SUBSET (1..Len(Palette)) : Cardinality(S) <= MaxPrims}

SceneOf(S) ==
    LET pick == SelectSeq([i \in 1..Len(Palette) |-> i], LAMBDA i : i \in S)
    IN  [k \in 1..Len(pick) |-> Palette[pick[k]]]

RayOrigins == { <<0, 0, 12>>, <<8, 4, 12>>, <<-12, 0, 0>>, <<6, 0, 12>> }

RayDirs == { <<1, 0, 0>>, <<-1, 0, 0>>, <<0, 1, 0>>, <<0, -1, 0>>,
             <<0, 0, 1>>, <<0, 0, -1>> }

\* the caller's t_max: f64::INFINITY, or 6.0
WindowMax == { Inf, 12 * LenUnit }

(***************************************************************************)
(* accel/bvh.rs: Hittable for BVH                                          *)
(***************************************************************************)
\* BVH::get_node
get_node(index) == IF index < Len(nodes) THEN <<index>> ELSE <<>>

\* the leaf loop `for i in obj_start..obj_end`, also the loop of the
\* linear HittableGroup::is_hit
RECURSIVE ScanObjects(_, _, _, _, _, _, _)
ScanObjects(objs, r, t_lo, i, obj_end, closest_t, h) ==
    IF i >= obj_end THEN [hit |-> h, closest_t |-> closest_t]
    ELSE LET obj_hit == is_hit(objs[i + 1], r, t_lo, closest_t)
         IN  IF obj_hit.some
                THEN ScanObjects(objs, r, t_lo, i + 1, obj_end, obj_hit.t, obj_hit)
                ELSE ScanObjects(objs, r, t_lo, i + 1, obj_end, closest_t, h)

\* Hittable for HittableGroup (geom.rs): the linear scan of all objects
HittableGroup_is_hit(objs, r, t_lo, t_hi) ==
    ScanObjects(objs, r, t_lo, 0, Len(objs), t_hi, NoHit).hit

BvhIdle ==
    /\ objects = <<>>
    /\ nodes = <<>>
    /\ root = 0
    /\ ray = [origin |-> VZero, dir |-> VZero]
    /\ q_t_min = 0
    /\ q_t_max = 0
    /\ t_max = 0
    /\ hit = NoHit
    /\ node_stack = <<>>
    /\ bpc = "idle"
    /\ popLog = <<>>

\* BVH::new on a scene, then the entry of is_hit:
\* `let mut hit = None; let mut node_stack = vec![root];`
BvhInit ==
    \E S \in Scenes, o \in RayOrigins, d \in RayDirs, hi \in WindowMax :
        LET bvh == BVH_new(SceneOf(S))
        IN  /\ objects = bvh.objects
            /\ nodes = bvh.nodes
            /\ root = bvh.root
            /\ ray = [origin |-> o, dir |-> d]
            /\ q_t_min = T_MIN_EPS
            /\ q_t_max = hi
            /\ t_max = hi
            /\ hit = NoHit
            /\ node_stack = <<bvh.root>>
            /\ bpc = "loop"
            /\ popLog = <<>>

\* node_stack.pop()
Top == node_stack[Len(node_stack)]

Popped == SubSeq(node_stack, 1, Len(node_stack) - 1)

\* the popped node is skipped: ray_intersects returns None, or
\* `t_max < node_t_min || node_t_max < t_min`
Pruned(n) ==
    LET iv == ray_intersects(nodes[n + 1].bounding_box, ray, q_t_min, t_max)
    IN  \/ ~iv.some
        \/ FLt(t_max, iv.t_min)
        \/ FLt(iv.t_max, q_t_min)

\* one turn of `while let Some(node) = node_stack.pop()`: node skipped
BvhPopPruned ==
    /\ bpc = "loop"
    /\ node_stack # <<>>
    /\ Pruned(Top)
    /\ node_stack' = Popped
    /\ popLog' = Append(popLog, Top)
    /\ UNCHANGED <<objects, nodes, root, ray, q_t_min, q_t_max, t_max, hit, bpc>>
    /\ UNCHANGED otherThanBvh

\* faulty variant of BvhPopInterior: the left child is pushed first
BvhPopInterior_left_first ==
    /\ bpc = "loop"
    /\ node_stack # <<>>
    /\ ~Pruned(Top)
    /\ nodes[Top + 1].children_indices # <<>>
    /\ LET children == nodes[Top + 1].children_indices
       IN  node_stack' = Popped \o get_node(children[1]) \o get_node(children[2])
    /\ popLog' = Append(popLog, Top)
    /\ UNCHANGED <<objects, nodes, root, ray, q_t_min, q_t_max, t_max, hit, bpc>>
    /\ UNCHANGED otherThanBvh

\* one turn of the loop: interior node, right child pushed, then left
BvhPopInterior ==
    /\ bpc = "loop"
    /\ node_stack # <<>>
    /\ ~Pruned(Top)
    /\ nodes[Top + 1].children_indices # <<>>
    /\ LET children == nodes[Top + 1].children_indices
       IN  node_stack' = Popped \o get_node(children[2]) \o get_node(children[1])
    /\ popLog' = Append(popLog, Top)
    /\ UNCHANGED <<objects, nodes, root, ray, q_t_min, q_t_max, t_max, hit, bpc>>
    /\ UNCHANGED otherThanBvh

\* one turn of the loop: leaf node, its objects are tested in order
BvhPopLeaf ==
    /\ bpc = "loop"
    /\ node_stack # <<>>
    /\ ~Pruned(Top)
    /\ nodes[Top + 1].children_indices = <<>>
    /\ LET range == nodes[Top + 1].object_indices
           scan  == IF range = <<>>
                       THEN [hit |-> hit, closest_t |-> t_max]
                       ELSE ScanObjects(objects, ray, q_t_min, range[1],
                                        range[2], t_max, hit)
       IN  /\ hit' = scan.hit
           /\ t_max' = scan.closest_t
    /\ node_stack' = Popped
    /\ popLog' = Append(popLog, Top)
    /\ UNCHANGED <<objects, nodes, root, ray, q_t_min, q_t_max, bpc>>
    /\ UNCHANGED otherThanBvh

\* the stack is empty: `hit` is returned
BvhReturn ==
    /\ bpc = "loop"
    /\ node_stack = <<>>
    /\ bpc' = "done"
    /\ UNCHANGED <<objects, nodes, root, ray, q_t_min, q_t_max, t_max, hit,
                   node_stack, popLog>>
    /\ UNCHANGED otherThanBvh

(***************************************************************************)
(* One is_hit call on a hittable: the primitives, the linear group and     *)
(* the Volume of geom/objects.rs, with the Hit that Hit::new builds.       *)
(***************************************************************************)
\* Hit::FP_OFFSET = 0.001
FP_OFFSET == 10

\* faulty variant of Hit_new: the normal is never negated
Hit_new_keep(normal, outer) == Direction(normal)

\* Hit::new: the stored normal is normal.unit() when outer, else its negation
Hit_new(normal, outer) ==
    IF outer THEN Direction(normal) ELSE VNeg(Direction(normal))

\* Sphere::is_hit: normal = (ray.at(t) - center) * (1 / radius), up to the
\* positive factor 1 / radius (t is a whole number of length units)
Sphere_normal(s, r, t) == VSub(AtScaled(r, t \div LenUnit, 1), s.p)

\* Triangle::is_hit: normal = ab.cross(&ac).unit()
Triangle_normal(tri) == Direction(Cross(VSub(tri.q, tri.p), VSub(tri.r, tri.p)))

\* the surface normal a primitive hands to Hit::new for its hit at t
surface_normal(obj, r, t) ==
    IF obj.kind = "Sphere" THEN Sphere_normal(obj, r, t) ELSE Triangle_normal(obj)

\* let outer = ray.dir.dot(&normal) < 0.0
outer_of(r, normal) == Dot(r.dir, normal) < 0

\* Volume::new and HittableGroup::new
Volume(boundary) == [kind |-> "Volume", boundary |-> boundary]

HittableGroup(hittables) == [kind |-> "HittableGroup", hittables |-> hittables]

\* f64 addition of a finite value and a value that may be infinite
FAdd(a, b) == IF b = Inf THEN Inf ELSE a + b

\* Hittable for Volume; hit_dist is inv_density * -rand_f64(rand).log10(),
\* a positive value or infinity
\* faulty variant of Volume_is_hit_exit: the segment is not clamped
Volume_is_hit_exit_unclamped(v, t_lo, t_hi, hit_dist, entry_hit, exit_hit) ==
    IF ~exit_hit.some THEN entry_hit
    ELSE IF f_geq(entry_hit.t, exit_hit.t) THEN NoHit
    ELSE IF FGt(hit_dist, FSub(exit_hit.t, entry_hit.t)) THEN NoHit
    ELSE SomeHit(FAdd(entry_hit.t, hit_dist), v.boundary.id)

\* from the second boundary query on, given both boundary hits
Volume_is_hit_exit(v, t_lo, t_hi, hit_dist, entry_hit, exit_hit) ==
    IF ~exit_hit.some THEN entry_hit
    ELSE
    LET entry_t == IF entry_hit.t < t_lo THEN t_lo ELSE entry_hit.t
        exit_t  == IF FGt(exit_hit.t, t_hi) THEN t_hi ELSE exit_hit.t
        entry_exit_dist == FSub(exit_t, entry_t)
    IN  IF f_geq(entry_t, exit_t) THEN NoHit
        ELSE IF FGt(hit_dist, entry_exit_dist) THEN NoHit
        ELSE SomeHit(FAdd(entry_t, hit_dist), v.boundary.id)

\* from the first boundary query on, given its hit
Volume_is_hit_entry(v, r, t_lo, t_hi, hit_dist, entry_hit) ==
    IF ~entry_hit.some THEN NoHit
    ELSE Volume_is_hit_exit(v, t_lo, t_hi, hit_dist, entry_hit,
             is_hit(v.boundary, r, entry_hit.t + FP_OFFSET, Inf))

Volume_is_hit(v, r, t_lo, t_hi, hit_dist) ==
    Volume_is_hit_entry(v, r, t_lo, t_hi, hit_dist,
        is_hit(v.boundary, r, -Inf, Inf))

\* the hittables of the model's calls: every primitive of the palette, two
\* volumes and two groups
Callees ==
    {Palette[i] : i \in 1..Len(Palette)}
    \cup {Volume(Palette[1]), Volume(Palette[3])}
    \cup {HittableGroup(SubSeq(Palette, 1, 4)), HittableGroup(SubSeq(Palette, 3, 8))}

\* the values of hit_dist in the model: 0.0001, 0.5, 2.0 and infinity
HitDists == {1, LenUnit, 4 * LenUnit, Inf}

\* the ray origins of the calls: those of the queries, and the centre of
\* the sphere at the origin (a ray that starts inside a boundary)
CallOrigins == RayOrigins \cup {VZero}

\* the caller's t_min: 0.001 (get_color), or 0
WindowMin == {T_MIN_EPS, 0}

\* the material of a Hit is the Arc the hittable holds: its owner stands
\* for it
NoMaterial == <<>>

MaterialOf(obj) ==
    IF obj.kind = "Volume" THEN <<"Volume", obj.boundary.id>>
    ELSE <<obj.kind, obj.id>>

CallIdle ==
    /\ callee = Palette[1]
    /\ c_ray = [origin |-> VZero, dir |-> VZero]
    /\ c_t_min = 0
    /\ c_t_max = 0
    /\ c_hit = NoHit
    /\ c_normal = VZero
    /\ c_outer = FALSE
    /\ c_material = NoMaterial
    /\ c_hit_dist = 0
    /\ cpc = "idle"

\* the arguments of one call of is_hit
CallInit ==
    /\ callee \in Callees
    /\ \E o \in CallOrigins, d \in RayDirs : c_ray = [origin |-> o, dir |-> d]
    /\ c_t_min \in WindowMin
    /\ c_t_max \in WindowMax
    /\ c_hit = NoHit
    /\ c_normal = VZero
    /\ c_outer = FALSE
    /\ c_material = NoMaterial
    /\ c_hit_dist = 0
    /\ cpc = "call"

\* the Hit a primitive returns: Hit::new(ray.at(t), normal, t, outer, ..)
ReturnHit(h, normal, outer) ==
    /\ c_hit' = h
    /\ c_outer' = (h.some /\ outer)
    /\ c_normal' = IF h.some THEN Hit_new(normal, outer) ELSE VZero

ReturnHitWith(h, normal) == ReturnHit(h, normal, outer_of(c_ray, normal))

ReturnHitOf(obj, h) ==
    /\ ReturnHitWith(h, surface_normal(obj, c_ray, h.t))
    /\ c_material' = IF h.some THEN MaterialOf(obj) ELSE NoMaterial

\* the object of a group that a Hit of the group comes from
HitObject(hittables, h) ==
    IF h.some
    THEN hittables[CHOOSE i \in 1..Len(hittables) : hittables[i].id = h.id]
    ELSE hittables[1]

\* what Volume::is_hit returns for its result h and the entry hit
ReturnVolumeHit(h, entry) ==
    IF h.some /\ h = entry
    THEN ReturnHitOf(callee.boundary, h)
    ELSE /\ c_hit' = h
         /\ c_outer' = h.some
         /\ c_normal' = VZero
         /\ c_material' = IF h.some THEN MaterialOf(callee) ELSE NoMaterial

\* Sphere::is_hit or Triangle::is_hit
CallPrimitive ==
    /\ cpc = "call"
    /\ callee.kind \in {"Sphere", "Triangle"}
    /\ ReturnHitOf(callee, is_hit(callee, c_ray, c_t_min, c_t_max))
    /\ cpc' = "returned"
    /\ UNCHANGED <<callee, c_ray, c_t_min, c_t_max, c_hit_dist>>
    /\ UNCHANGED otherThanCall

\* HittableGroup::is_hit (linear scan): the Hit of the nearest object
CallGroup ==
    /\ cpc = "call"
    /\ callee.kind = "HittableGroup"
    /\ \E h \in {HittableGroup_is_hit(callee.hittables, c_ray, c_t_min, c_t_max)} :
          ReturnHitOf(HitObject(callee.hittables, h), h)
    /\ cpc' = "returned"
    /\ UNCHANGED <<callee, c_ray, c_t_min, c_t_max, c_hit_dist>>
    /\ UNCHANGED otherThanCall

\* Volume::is_hit: the entry hit of the boundary as it is, or
\* Hit::new(ray.at(t), Vec3::O, t, true, ..)
CallVolume ==
    /\ cpc = "call"
    /\ callee.kind = "Volume"
    /\ \E hit_dist \in HitDists :
          /\ c_hit_dist' = hit_dist
          /\ ReturnVolumeHit(
                 Volume_is_hit(callee, c_ray, c_t_min, c_t_max, hit_dist),
                 is_hit(callee.boundary, c_ray, -Inf, Inf))
    /\ cpc' = "returned"
    /\ UNCHANGED <<callee, c_ray, c_t_min, c_t_max>>
    /\ UNCHANGED otherThanCall

\* The objects of the build-only scenes: the palette, three more small
\* spheres, and nine spheres of radius 200.0 whose centres are close
\* together (every split of them costs more than a leaf).
BuildPalette ==
    Palette \o
    << Sphere(9, <<16, 0, 0>>, 2),
       Sphere(10, <<12, -8, 0>>, 2),
       Sphere(11, <<-12, 8, 0>>, 2),
       Sphere(12, <<0, 0, 0>>, 400),
       Sphere(13, <<2, 2, 0>>, 400),
       Sphere(14, <<4, 0, 0>>, 400),
       Sphere(15, <<6, 2, 0>>, 400),
       Sphere(16, <<8, 0, 0>>, 400),
       Sphere(17, <<10, 2, 2>>, 400),
       Sphere(18, <<12, 0, 2>>, 400),
       Sphere(19, <<14, 2, 2>>, 400),
       Sphere(20, <<16, 0, 2>>, 400) >>

\* a build-only scene: at most MaxBuildPrims consecutive objects
BuildScenes ==
    {<<first, last>> \in (1..Len(BuildPalette)) \X (1..Len(BuildPalette)) :
        first <= last /\ last - first < MaxBuildPrims}

\* the objects handed to BVH::new, before the tree is built
BuildInit ==
    /\ \E S \in BuildScenes : objects = SubSeq(BuildPalette, S[1], S[2])
    /\ nodes = <<>>
    /\ root = 0
    /\ ray = [origin |-> VZero, dir |-> VZero]
    /\ q_t_min = 0
    /\ q_t_max = 0
    /\ t_max = 0
    /\ hit = NoHit
    /\ node_stack = <<>>
    /\ bpc = "new"
    /\ popLog = <<>>

\* BVH::new: the node array is built, root is the last node
BvhBuild ==
    /\ bpc = "new"
    /\ LET bvh == BVH_new(objects)
       IN  /\ nodes' = bvh.nodes
           /\ root' = bvh.root
    /\ bpc' = "built"
    /\ UNCHANGED <<objects, ray, q_t_min, q_t_max, t_max, hit, node_stack, popLog>>
    /\ UNCHANGED otherThanBvh

\* the boxes of the model's union calls: the bounding box of every object
\* of the build palette, the empty box and the box of the origin
Boxes ==
    {bounding_box(BuildPalette[i]) : i \in 1..Len(BuildPalette)}
    \cup {empty, AABB(VZero, VZero)}

NoUnions == [ab |-> empty, ba |-> empty, ab_c |-> empty, a_bc |-> empty,
             empty_a |-> empty]

UnionIdle ==
    /\ box_a = empty
    /\ box_b = empty
    /\ box_c = empty
    /\ union_out = NoUnions
    /\ upc = "idle"

UnionInit ==
    /\ box_a \in Boxes
    /\ box_b \in Boxes
    /\ box_c \in Boxes
    /\ union_out = NoUnions
    /\ upc = "call"

\* AxisAlignedBoundingBox::union(vec![..]) on the pairs of the three boxes
UnionCalls ==
    /\ upc = "call"
    /\ union_out' =
          [ab      |-> union(<<box_a, box_b>>),
           ba      |-> union(<<box_b, box_a>>),
           ab_c    |-> union(<<union(<<box_a, box_b>>), box_c>>),
           a_bc    |-> union(<<box_a, union(<<box_b, box_c>>)>>),
           empty_a |-> union(<<empty, box_a>>)]
    /\ upc' = "returned"
    /\ UNCHANGED <<box_a, box_b, box_c>>
    /\ UNCHANGED otherThanUnion

\* faulty variant of MedianMid: the index relative to the slice
MedianMid_relative(start, end) == (end - start) \div 2

\* `let mut mid = (start + end) / 2;`
MedianMid(start, end) == (start + end) \div 2

\* what one call build(start, end) decides before it recurses: a leaf, or
\* the split axis and mid of an interior node
BuildDecision(objs_all, start, end) ==
    LET objs     == SubSeq(objs_all, start + 1, end)
        num_objs == end - start
        bounds   == union_from_objs(objs)
        leaf     == [leaf |-> TRUE, bounds |-> bounds, split_axis |-> 0,
                     mid |-> 0]
    IN  IF num_objs <= 4 THEN leaf
        ELSE
        LET centroids_bounds ==
                union_from_points([i \in 1..num_objs |-> centroid(objs[i])])
            split_axis == largest_extent_axis(centroids_bounds)
        IN  IF volume(centroids_bounds) = 0 THEN leaf
            ELSE IF num_objs <= 8
                THEN [leaf |-> FALSE, bounds |-> bounds,
                      split_axis |-> split_axis, mid |-> MedianMid(start, end)]
            ELSE
            LET bucket_costs == SplitCosts(objs, centroids_bounds, split_axis)
                sah == MinCostBucket(bucket_costs)
            IN  IF ~SplitIsCheaper(bucket_costs[sah], bounds, num_objs)
                   THEN leaf
                   ELSE [leaf |-> FALSE, bounds |-> bounds,
                         split_axis |-> split_axis,
                         mid |-> start + Len(BucketsUpTo(objs, centroids_bounds,
                                                         split_axis, sah))]

\* a call build(start, end) that has just been entered
Frame(start, end) ==
    [start |-> start, end |-> end, phase |-> "enter", split_axis |-> 0,
     mid |-> 0, left_child_index |-> 0]

TopFrame == build_frames[Len(build_frames)]

OuterFrames == SubSeq(build_frames, 1, Len(build_frames) - 1)

StepIdle ==
    /\ build_objects = <<>>
    /\ build_nodes = <<>>
    /\ build_frames = <<>>
    /\ build_splits = <<>>
    /\ build_root = 0
    /\ build_pc = "idle"

\* BVH::new up to the call self.build(0, self.objects.len())
StepInit ==
    /\ \E S \in BuildScenes : build_objects = SubSeq(BuildPalette, S[1], S[2])
    /\ build_nodes = <<>>
    /\ build_frames = <<Frame(0, Len(build_objects))>>
    /\ build_splits = <<>>
    /\ build_root = 0
    /\ build_pc = "build"

\* build(start, end) returns self.add_leaf_node((start, end), bounds)
BuildLeaf ==
    /\ build_pc = "build"
    /\ build_frames # <<>>
    /\ TopFrame.phase = "enter"
    /\ \E d \in {BuildDecision(build_objects, TopFrame.start, TopFrame.end)} :
          /\ d.leaf
          /\ build_nodes' = add_leaf_node(build_nodes,
                                <<TopFrame.start, TopFrame.end>>, d.bounds)
    /\ build_frames' = OuterFrames
    /\ UNCHANGED <<build_objects, build_splits, build_root>>
    /\ UNCHANGED build_pc
    /\ UNCHANGED otherThanStep

\* build(start, end) splits its range and calls self.build(start, mid)
BuildLeft ==
    /\ build_pc = "build"
    /\ build_frames # <<>>
    /\ TopFrame.phase = "enter"
    /\ \E d \in {BuildDecision(build_objects, TopFrame.start, TopFrame.end)} :
          /\ ~d.leaf
          /\ build_frames' =
                OuterFrames
                \o <<[TopFrame EXCEPT !.phase = "left",
                                      !.split_axis = d.split_axis,
                                      !.mid = d.mid]>>
                \o <<Frame(TopFrame.start, d.mid)>>
          /\ build_splits' =
                Append(build_splits, <<TopFrame.start, d.mid, TopFrame.end>>)
    /\ UNCHANGED <<build_objects, build_nodes, build_root, build_pc>>
    /\ UNCHANGED otherThanStep

\* self.build(start, mid) has returned the index of its last node;
\* build calls self.build(mid, end)
BuildRight ==
    /\ build_pc = "build"
    /\ build_frames # <<>>
    /\ TopFrame.phase = "left"
    /\ build_frames' =
          OuterFrames
          \o <<[TopFrame EXCEPT !.phase = "right",
                                !.left_child_index = Len(build_nodes) - 1]>>
          \o <<Frame(TopFrame.mid, TopFrame.end)>>
    /\ UNCHANGED <<build_objects, build_nodes, build_splits, build_root, build_pc>>
    /\ UNCHANGED otherThanStep

\* self.build(mid, end) has returned; build returns
\* self.add_interior_node(split_axis, (left_child_index, right_child_index))
BuildInterior ==
    /\ build_pc = "build"
    /\ build_frames # <<>>
    /\ TopFrame.phase = "right"
    /\ build_nodes' =
          add_interior_node(build_nodes, TopFrame.split_axis,
              <<TopFrame.left_child_index, Len(build_nodes) - 1>>)
    /\ build_frames' = OuterFrames
    /\ UNCHANGED <<build_objects, build_splits, build_root, build_pc>>
    /\ UNCHANGED otherThanStep

\* BVH::new: `bvh.root = bvh.build(0, bvh.objects.len());`
BuildReturn ==
    /\ build_pc = "build"
    /\ build_frames = <<>>
    /\ build_root' = Len(build_nodes) - 1
    /\ build_pc' = "built"
    /\ UNCHANGED <<build_objects, build_nodes, build_frames, build_splits>>
    /\ UNCHANGED otherThanStep

Init == PoolInit /\ RenderIdle /\ IntegIdle /\ BvhIdle /\ CallIdle /\ RngIdle
    /\ PpmIdle
    /\ LoaderIdle
    /\ MainIdle
    /\ UnionIdle
    /\ StepIdle

Next ==
    \/ Execute
    \/ FinishWith
    \/ DropBegin
    \/ DropSendTerminate
    \/ DropStartJoin
    \/ DropJoin
    \/ DropFinal
    \/ FinalReturn
    \/ \E w \in Workers : WorkerLock(w)
    \/ \E w \in Workers : WorkerRecv(w)
    \/ \E w \in Workers : JobReturn(w)

Spec == Init /\ [][Next]_vars

\* the render driver on the pool
RenderInit == PoolInit /\ RenderIdle /\ IntegIdle /\ BvhIdle /\ CallIdle /\ RngIdle
    /\ PpmIdle
    /\ LoaderIdle
    /\ MainIdle
    /\ UnionIdle
    /\ StepIdle

RenderNext ==
    \/ RenderSubmitRow
    \/ RenderDropBegin
    \/ DropSendTerminate
    \/ DropStartJoin
    \/ DropJoin
    \/ DropFinal
    \/ \E w \in Workers : WorkerLock(w)
    \/ \E w \in Workers : WorkerRecv(w)
    \/ \E w \in Workers : RowJobReturn(w)
    \/ WriterEmit

RenderSpec == RenderInit /\ [][RenderNext]_vars

\* Ray::get_color for one primary ray
IntegratorInit == PoolInit /\ RenderIdle /\ IntegInit /\ BvhIdle /\ CallIdle /\ RngIdle
    /\ PpmIdle
    /\ LoaderIdle
    /\ MainIdle
    /\ UnionIdle
    /\ StepIdle

IntegratorNext ==
    \/ QueryMiss
    \/ QueryHit
    \/ ScatterNone
    \/ ScatterSome
    \/ LoopExit

IntegratorSpec == IntegratorInit /\ [][IntegratorNext]_vars

\* the render driver with row jobs that draw random samples
RngRenderNext ==
    \/ RenderSubmitRow
    \/ RenderDropBegin
    \/ DropSendTerminate
    \/ DropStartJoin
    \/ DropJoin
    \/ DropFinal
    \/ \E w \in Workers : WorkerLock(w)
    \/ \E w \in Workers : WorkerRecv(w)
    \/ \E w \in Workers : RngRowJobReturn(w)
    \/ WriterEmit

RngRenderSpec == RenderInit /\ [][RngRenderNext]_vars

\* BVH::new, one call of build at a time
StepBuildSpecInit ==
    PoolInit /\ RenderIdle /\ IntegIdle /\ BvhIdle /\ CallIdle /\ RngIdle
    /\ PpmIdle
    /\ LoaderIdle
    /\ MainIdle
    /\ UnionIdle
    /\ StepInit

StepBuildNext ==
    \/ BuildLeaf
    \/ BuildLeft
    \/ BuildRight
    \/ BuildInterior
    \/ BuildReturn

StepBuildSpec == StepBuildSpecInit /\ [][StepBuildNext]_vars

\* calls of AxisAlignedBoundingBox::union
UnionSpecInit ==
    PoolInit /\ RenderIdle /\ IntegIdle /\ BvhIdle /\ CallIdle /\ RngIdle
    /\ PpmIdle
    /\ LoaderIdle
    /\ MainIdle
    /\ UnionInit
    /\ StepIdle

UnionNext == UnionCalls

UnionSpec == UnionSpecInit /\ [][UnionNext]_vars

\* one run of main
MainSpecInit ==
    PoolInit /\ RenderIdle /\ IntegIdle /\ BvhIdle /\ CallIdle /\ RngIdle
    /\ PpmIdle
    /\ LoaderIdle
    /\ MainInit
    /\ UnionIdle
    /\ StepIdle

MainNext ==
    \/ MainRenderOpt
    \/ MainRenderScene
    \/ MainInvalidScene
    \/ MainReturn

MainSpec == MainSpecInit /\ [][MainNext]_vars

\* one call of Loader::load_obj
LoaderSpecInit ==
    PoolInit /\ RenderIdle /\ IntegIdle /\ BvhIdle /\ CallIdle /\ RngIdle
    /\ PpmIdle
    /\ LoaderInit
    /\ MainIdle
    /\ UnionIdle
    /\ StepIdle

LoaderNext ==
    \/ LoadReadError
    \/ LoadSkip
    \/ LoadVertex
    \/ LoadVertexError
    \/ LoadFace
    \/ LoadFaceError
    \/ LoadFacePanic
    \/ LoadReturn

LoaderSpec == LoaderSpecInit /\ [][LoaderNext]_vars

\* one call of create_ppm
PpmSpecInit ==
    PoolInit /\ RenderIdle /\ IntegIdle /\ BvhIdle /\ CallIdle /\ RngIdle
    /\ PpmInit
    /\ LoaderIdle
    /\ MainIdle
    /\ UnionIdle
    /\ StepIdle

PpmNext ==
    \/ CreatePpmPixel
    \/ CreatePpmNextRow
    \/ CreatePpmReturn

PpmSpec == PpmSpecInit /\ [][PpmNext]_vars

\* BVH::new on a scene and one BVH::is_hit query
BvhSpecInit == PoolInit /\ RenderIdle /\ IntegIdle /\ BvhInit /\ CallIdle /\ RngIdle
    /\ PpmIdle
    /\ LoaderIdle
    /\ MainIdle
    /\ UnionIdle
    /\ StepIdle

BvhNext ==
    \/ BvhPopPruned
    \/ BvhPopInterior
    \/ BvhPopLeaf
    \/ BvhReturn

BvhSpec == BvhSpecInit /\ [][BvhNext]_vars

\* BVH::new alone, on scenes large enough for every branch of build
BuildSpecInit == PoolInit /\ RenderIdle /\ IntegIdle /\ BuildInit /\ CallIdle /\ RngIdle
    /\ PpmIdle
    /\ LoaderIdle
    /\ MainIdle
    /\ UnionIdle
    /\ StepIdle

BuildNext == BvhBuild

BuildSpec == BuildSpecInit /\ [][BuildNext]_vars

\* one is_hit call on a primitive, a group or a volume
CallSpecInit ==
    PoolInit /\ RenderIdle /\ IntegIdle /\ BvhIdle /\ CallInit /\ RngIdle
    /\ PpmIdle
    /\ LoaderIdle
    /\ MainIdle
    /\ UnionIdle
    /\ StepIdle

CallNext ==
    \/ CallPrimitive
    \/ CallGroup
    \/ CallVolume

CallSpec == CallSpecInit /\ [][CallNext]_vars

(***************************************************************************)
(* Scheduling assumptions for liveness: the OS runs every thread that can  *)
(* take a step, and every submitted job returns (JobReturn).               *)
(***************************************************************************)
MainDropStep ==
    DropSendTerminate \/ DropStartJoin \/ DropJoin \/ DropFinal \/ FinalReturn

WorkerStep(w) == WorkerLock(w) \/ WorkerRecv(w) \/ JobReturn(w)

FairSpec ==
    /\ Spec
    /\ WF_vars(MainDropStep)
    /\ \A w \in Workers : WF_vars(WorkerStep(w))

(***************************************************************************)
(* Claims about the thread pool                                            *)
(***************************************************************************)
StartsOf(j) == {i \in 1..Len(runLog) : runLog[i][1] = j}

ReturnsOf(j) == {i \in 1..Len(finished) : finished[i] = j}

WorkersThatRan == {runLog[i][2] : i \in 1..Len(runLog)}

\* C1: every job passed to execute() is started at most once (hence by at
\* most one worker), and once the final callable has started or drop has
\* returned, every submitted job has been started exactly once and has
\* returned.
C1_JobsRunOnceBeforeFinal ==
    /\ \A j \in 1..submitted :
          /\ Cardinality(StartsOf(j)) <= 1
          /\ Cardinality(ReturnsOf(j)) <= Cardinality(StartsOf(j))
    /\ (finalRun # <<>> \/ mainpc \in {"final", "dropped"}) =>
          \A j \in 1..submitted :
             /\ Cardinality(StartsOf(j)) = 1
             /\ Cardinality(ReturnsOf(j)) = 1

\* witness of C1: the final callable runs after MaxJobs jobs were spread
\* over more than one worker
C1_Witness ==
    /\ mainpc = "final"
    /\ finalRun # <<>>
    /\ submitted = MaxJobs
    /\ Cardinality(WorkersThatRan) > 1

\* C2: drop sends one Terminate per worker before it joins anything, joins
\* every worker (each has left its loop when joined) before the final
\* callable is taken, and the final callable only ever runs with every
\* worker thread gone.
C2_DropOrder ==
    /\ mainpc = "alive" => termSent = 0
    /\ mainpc \in {"alive", "terminate"} => joinIdx = 1 /\ finalRun = <<>>
    /\ mainpc \in {"join", "final", "dropped"} =>
          /\ termSent = NumWorkers
          /\ \A w \in Workers : w < joinIdx => wpc[w] = "exited"
    /\ mainpc = "join" => finalRun = <<>>
    /\ mainpc \in {"final", "dropped"} =>
          /\ joinIdx = NumWorkers + 1
          /\ \A w \in Workers : wpc[w] = "exited"
    /\ finalRun # <<>> => \A w \in Workers : wpc[w] = "exited"

\* witness of C2: the final callable is running, after jobs were executed
C2_Witness ==
    /\ mainpc = "final"
    /\ termSent = NumWorkers
    /\ Len(finished) > 0

\* C3: once drop has been entered it returns, and when it has returned
\* every worker has consumed exactly one Terminate and left its loop, and
\* nothing is left in the channel for a worker to wait on.
C3_DropTerminates ==
    /\ (mainpc = "terminate") ~> (mainpc = "dropped")
    /\ [](mainpc = "dropped" =>
            /\ \A w \in Workers : termTaken[w] = 1 /\ wpc[w] = "exited"
            /\ channel = <<>>
            /\ lockHolder = 0)
    /\ [](\A w \in Workers : termTaken[w] <= 1)

\* witness of C3: drop has returned after MaxJobs jobs
C3_Witness ==
    /\ mainpc = "dropped"
    /\ submitted = MaxJobs
    /\ \A w \in Workers : termTaken[w] = 1

\* C4: jobs leave the channel in submission order (job ids count the
\* execute() calls of the single owner of the pool): a job submitted
\* earlier is dequeued earlier.  The order of returns is free (witness).
C4_DequeueFIFO ==
    \A i, k \in 1..Len(runLog) : i < k => runLog[i][1] < runLog[k][1]

\* witness of C4: job 2 returned while job 1, dequeued first, still runs
C4_Witness ==
    /\ Len(runLog) >= 2
    /\ 2 \in {finished[i] : i \in 1..Len(finished)}
    /\ 1 \notin {finished[i] : i \in 1..Len(finished)}

(***************************************************************************)
(* Claims about the render driver                                          *)
(***************************************************************************)
\* the first n pixel lines of an image in scan order
ScanOrder(n) == [i \in 1..n |-> <<(i - 1) \div Width, (i - 1) % Width>>]

\* C5: the driver submits one job per row, and the PPM stream always holds
\* the rows in scan order: row 0 first, every row once, pixels left to
\* right, whatever order the row jobs return in; once the pool is gone all
\* H rows are there for the writer.
C5_RowsInScanOrder ==
    /\ ppm = ScanOrder(Len(ppm))
    /\ Len(ppm) = nextRow * Width
    /\ nextRow <= Height
    /\ submitted <= Height
    /\ mainpc # "alive" => submitted = Height
    /\ mainpc = "dropped" => \A r \in Rows : rowbuf[r] = RenderRow(r)

\* witness of C5: the whole image is in the stream although row 1 was
\* completed before row 0
C5_Witness ==
    /\ Len(ppm) = Width * Height
    /\ finished # <<>>
    /\ finished[1] = 2

(***************************************************************************)
(* Claims about the integrator                                             *)
(***************************************************************************)
\* C6: get_color makes at most max_depth intersection queries for one
\* primary ray (none when max_depth is 0).
C6_QueriesBounded == queries <= depth

\* witness of C6: a path that used all MaxDepth queries
C6_Witness ==
    /\ ipc = "done"
    /\ depth = MaxDepth
    /\ queries = MaxDepth

\* C7: the colour get_color returns is the radiance L of the documented
\* recurrence (L += beta*a*e on a hit, beta *= a on scatter, L += beta*bg
\* on a miss).
C7_ResultIsRadiance == ipc = "done" => color = refL

\* C8: a path that scatters on every one of its max_depth (>= 1) bounces,
\* through non-emissive materials, returns black.
C8_DepthExhaustedBlack ==
    (ipc = "done" /\ ~ended /\ depth >= 1 /\ iter = depth /\ ~emissiveHit)
        => color = BLACK

\* C9: once a miss or a hit without scattered ray has happened, get_color
\* makes no further intersection query and no further scatter call.
C9_PathEnds ==
    [][ended => (queries' = queries /\ scatterCalls' = scatterCalls)]_vars

\* witness of C9: the path ended with iterations of the loop left
C9_Witness ==
    /\ ipc = "done"
    /\ ended
    /\ iter < depth
    /\ scatterCalls >= 1

(***************************************************************************)
(* Claims about the BVH                                                    *)
(***************************************************************************)
\* the objects that report a hit in the caller's window
HitsInWindow ==
    {i \in 1..Len(objects) : is_hit(objects[i], ray, q_t_min, q_t_max).some}

\* C10: BVH::is_hit returns a hit exactly when some object reports a hit in
\* the window (t_min, t_max), and the hit it returns has the least t of all
\* the objects' hits in the window: it agrees with the linear scan.
C10_BvhAgreesWithLinearScan ==
    bpc = "done" =>
        /\ hit.some <=> HitsInWindow # {}
        /\ hit.some =>
              \A i \in HitsInWindow :
                 hit.t <= is_hit(objects[i], ray, q_t_min, q_t_max).t
        /\ hit.t = HittableGroup_is_hit(objects, ray, q_t_min, q_t_max).t

\* the nodes of the tree under node n (n itself included)
RECURSIVE NodesUnder(_)
NodesUnder(n) ==
    IF n >= Len(nodes) THEN {}
    ELSE LET children == nodes[n + 1].children_indices
         IN  IF children = <<>> THEN {n}
             ELSE {n} \cup NodesUnder(children[1]) \cup NodesUnder(children[2])

\* the leaves reachable from the root, and the indices a leaf holds
Leaves == {n \in NodesUnder(root) : nodes[n + 1].children_indices = <<>>}

LeafRange(n) ==
    nodes[n + 1].object_indices[1] .. (nodes[n + 1].object_indices[2] - 1)

Interiors == NodesUnder(root) \ Leaves

\* box a contains box b, componentwise
Contains(a, b) ==
    \A k \in 1..3 :
        /\ a.bbl_corner[k] <= b.bbl_corner[k]
        /\ b.ftr_corner[k] <= a.ftr_corner[k]

\* C11: after BVH::new over N primitives every leaf range lies in [0, N)
\* and every primitive index is in the range of exactly one leaf reachable
\* from the root (the ranges are pairwise disjoint and cover [0, N)).
C11_LeafRangesPartition ==
    bpc = "built" =>
        /\ \A n \in Leaves : LeafRange(n) \subseteq 0..(Len(objects) - 1)
        /\ \A i \in 0..(Len(objects) - 1) :
              Cardinality({n \in Leaves : i \in LeafRange(n)}) = 1

\* witness of C11: a tree over more than 8 primitives that was split by
\* the surface area heuristic
C11_Witness ==
    /\ bpc = "built"
    /\ Len(objects) > 8
    /\ Cardinality(Leaves) >= 3

\* C12: in a built BVH the box of every interior node contains the boxes
\* of both children, and the box of every leaf contains the bounding box
\* of every primitive of its range.
C12_BoxesCover ==
    bpc = "built" =>
        /\ \A n \in Interiors :
              \A k \in 1..2 :
                 Contains(nodes[n + 1].bounding_box,
                          nodes[nodes[n + 1].children_indices[k] + 1].bounding_box)
        /\ \A n \in Leaves :
              \A i \in LeafRange(n) :
                 Contains(nodes[n + 1].bounding_box, bounding_box(objects[i + 1]))

\* witness of C12: a tree with an interior node under the root and a leaf
\* of several primitives
C12_Witness ==
    /\ bpc = "built"
    /\ Cardinality(Interiors) >= 2
    /\ \E n \in Leaves : Cardinality(LeafRange(n)) >= 2

(***************************************************************************)
(* Claims about hits                                                       *)
(***************************************************************************)
\* C13: every Hit that is_hit returns for the window (t_min, t_max) has
\* t_min < t < t_max, whichever hittable was called (a Volume whose
\* boundary gives an entry hit and no exit hit included).
C13_HitInWindow ==
    (cpc = "returned" /\ c_hit.some) =>
        (FLt(c_t_min, c_hit.t) /\ FLt(c_hit.t, c_t_max))

\* the primitive whose surface the returned hit lies on
HitPrimitive ==
    IF callee.kind = "Volume" THEN callee.boundary
    ELSE IF callee.kind = "HittableGroup"
            THEN callee.hittables[CHOOSE i \in 1..Len(callee.hittables) :
                                     callee.hittables[i].id = c_hit.id]
    ELSE callee

\* C14: a hit that a primitive builds with Hit::new from its surface
\* normal n and outer = (dir . n < 0) stores a normal with
\* dir . normal <= 0: n's direction when outer, the opposite one when not.
C14_NormalFacesRay ==
    (cpc = "returned" /\ c_hit.some /\ c_normal # VZero) =>
        LET n == Direction(surface_normal(HitPrimitive, c_ray, c_hit.t))
        IN  /\ Dot(c_ray.dir, c_normal) <= 0
            /\ c_outer = (Dot(c_ray.dir, n) < 0)
            /\ c_outer => c_normal = n
            /\ ~c_outer => c_normal = VNeg(n)

\* witness of C14: a surface hit from behind, its normal was negated
C14_Witness ==
    /\ cpc = "returned"
    /\ c_hit.some
    /\ c_normal # VZero
    /\ ~c_outer

(***************************************************************************)
(* Claims about rendering with random samples                              *)
(***************************************************************************)
\* the image of the run in which worker 1 renders every row, in row order
ReferencePpm ==
    [i \in 1..(Width * Height) |-> Sample(1, i)]

\* C15: with the same generator streams per worker, every render of the
\* scene writes the same PPM, whatever the interleaving of the workers and
\* whichever worker runs which row job: the finished image is the image
\* of the run in which worker 1 renders every row.
C15_SameOutput ==
    (mainpc = "dropped" /\ Len(ppm) = Width * Height) => ppm = ReferencePpm

\* the boundary's entry hit and, after it, its exit hit
EntryHit == is_hit(callee.boundary, c_ray, -Inf, Inf)

ExitHitAfter(entry) == is_hit(callee.boundary, c_ray, entry.t + FP_OFFSET, Inf)

\* Volume::is_hit was called and the boundary gave an entry and an exit hit
VolumeCrossed ==
    /\ cpc = "returned"
    /\ callee.kind = "Volume"
    /\ IF EntryHit.some THEN ExitHitAfter(EntryHit).some ELSE FALSE

\* what the claim C24 gives for the segment [t_in, t_out] of the boundary
VolumeResultFor(t_in, t_out) ==
    LET lo == IF t_in < c_t_min THEN c_t_min ELSE t_in
        hi == IF FGt(t_out, c_t_max) THEN c_t_max ELSE t_out
    IN  IF f_geq(lo, hi) \/ FGt(c_hit_dist, FSub(hi, lo))
        THEN ~c_hit.some
        ELSE /\ c_hit.some
             /\ c_hit.t = lo + c_hit_dist
             /\ lo <= c_hit.t /\ c_hit.t <= hi
             /\ c_outer
             /\ c_material = MaterialOf(callee)

\* C24: when the boundary gives an entry and an exit hit, Volume::is_hit
\* clamps [t_in, t_out] to [t_min, t_max], returns none if the clamped
\* segment is empty (up to the float threshold) or the sampled distance
\* exceeds its length, and otherwise returns a hit at t_in + distance
\* inside the clamped segment, with outer = true and the volume's material.
C24_VolumeSegment ==
    VolumeCrossed =>
        VolumeResultFor(EntryHit.t, ExitHitAfter(EntryHit).t)

\* witness of C24: a hit inside a segment that t_min cut short (the ray
\* starts inside the boundary)
C24_Witness ==
    /\ VolumeCrossed
    /\ c_hit.some
    /\ EntryHit.t < c_t_min

(***************************************************************************)
(* Claims about the PPM text                                               *)
(***************************************************************************)
\* the grid is `height` rows of `width` pixels
GridMatches ==
    /\ Len(pixels) = height
    /\ \A i \in 1..Len(pixels) : Len(pixels[i]) = width

\* C16: for a grid of H rows of W pixels create_ppm returns the lines
\* P3, "W H", max, and then exactly W * H pixel lines in row-major order:
\* the line of pixel (i, j) is line i * W + j after the header.
C16_PpmRowMajor ==
    (ppc = "done" /\ GridMatches) =>
        /\ Len(ppm_out) = 3 + width * height
        /\ ppm_out[1] = <<"P3">>
        /\ ppm_out[2] = <<width, height>>
        /\ ppm_out[3] = <<max_colors>>
        /\ \A i \in 0..(height - 1), j \in 0..(width - 1) :
              ppm_out[3 + i * width + j + 1] = write_pixel(pixels[i + 1][j + 1])

\* witness of C16: the text of a full grid whose pixels all differ
C16_Witness ==
    /\ ppc = "done"
    /\ GridMatches
    /\ height = MaxGridRows
    /\ width = MaxGridCols
    /\ pixels[1][1] = PatternPixel("gradient", 0, 0)

\* floor(255.999 * clamp(c, 0, 1)) for c in thousandths
ClampedComponent(c) ==
    (255999 * (IF c < 0 THEN 0 ELSE IF c > 1000 THEN 1000 ELSE c)) \div 1000000

\* C17: every colour component written to the PPM is
\* floor(255.999 * clamp(c, 0, 1)) and so lies in 0..255, for every input
\* component c (below 0 and above 1 included).
C17_ComponentClamped ==
    \A n \in 1..(Len(ppm_out) - 3) : \A k \in 1..3 :
        LET row_len == Len(pixels[1])
            pixel   == pixels[((n - 1) \div row_len) + 1][((n - 1) % row_len) + 1]
        IN  /\ ppm_out[3 + n][k] = ClampedComponent(pixel[k])
            /\ ppm_out[3 + n][k] \in 0..255

(***************************************************************************)
(* Claims about the OBJ loader                                             *)
(***************************************************************************)
\* the zero-based index of the OBJ index i when count vertices were read:
\* i - 1 for a positive i, count - k for i = -k
ZeroBased(i, count) == IF i < 0 THEN count + i ELSE i - 1

\* C18: face indices are normalised to zero-based vertex indices: a
\* positive index i is stored as i - 1 and a negative index -k as
\* (number of vertices read so far) - k, so -1 is the latest vertex.
C18_IndicesZeroBased ==
    \A t \in 1..Len(indices) :
        LET i == face_log[t].i
            count == face_log[t].len
        IN  indices[t] = <<ZeroBased(i[1], count), ZeroBased(i[3], count),
                           ZeroBased(i[2], count)>>

\* the item the loop took last is a face line of three parsed indices, one
\* of which is outside 0 .. vertices.len() - 1 once normalised by the loader
LastFaceOutOfRange ==
    /\ line_no >= 1
    /\ ~lines[line_no].err
    /\ LET data == Data(lines[line_no].text)
       IN  /\ ParsedTri(data)
           /\ \E k \in 1..3 :
                 IndexValue(FaceIndices(data)[k], Len(vertices))
                     \notin 0..(Len(vertices) - 1)

\* C19: every index stored in a triangle of a loaded Obj is smaller than
\* the number of vertices read when its face line was parsed, and a face
\* line with an index outside that range makes load_obj return a Face
\* error and no Obj.
C19_OutOfRangeIsFaceError ==
    /\ \A t \in 1..Len(indices) : \A k \in 1..3 :
          indices[t][k] < face_log[t].len
    /\ LastFaceOutOfRange => load_result = "Face"

\* the nodes of the left and of the right subtree of interior node n
LeftUnder(n) == NodesUnder(nodes[n + 1].children_indices[1])

RightUnder(n) == NodesUnder(nodes[n + 1].children_indices[2])

\* C26: in a BVH query the right child of an interior node is pushed before
\* the left one, so the whole left subtree is visited before any node of
\* the right subtree, and each node is popped at most once.
C26_LeftSubtreeFirst ==
    /\ \A i, j \in 1..Len(popLog) : i # j => popLog[i] # popLog[j]
    /\ \A n \in Interiors :
          /\ \A i, j \in 1..Len(node_stack) :
                (node_stack[i] \in RightUnder(n) /\ node_stack[j] \in LeftUnder(n))
                    => i < j
          /\ \A i, j \in 1..Len(popLog) :
                (popLog[i] \in RightUnder(n) /\ popLog[j] \in LeftUnder(n))
                    => j < i
          /\ (\E i \in 1..Len(popLog) : popLog[i] \in RightUnder(n))
                => \A j \in 1..Len(node_stack) : node_stack[j] \notin LeftUnder(n)

\* witness of C26: a finished query that visited both subtrees of a node
C26_Witness ==
    /\ bpc = "done"
    /\ \E n \in Interiors :
          /\ \E i \in 1..Len(popLog) : popLog[i] \in LeftUnder(n)
          /\ \E i \in 1..Len(popLog) : popLog[i] \in RightUnder(n)

\* the texts of the p-th item, and whether it is a line with that tag and
\* at least one more text
DataAt(p) == Data(lines[p].text)

Tagged(p, tag) ==
    /\ ~lines[p].err
    /\ IF Len(DataAt(p)) > 1 THEN DataAt(p)[1] = tag ELSE FALSE

\* a v line with fewer than three coordinates; an f line with fewer than
\* three or more than four indices
ShortVertex(p) == Tagged(p, TextV) /\ Len(DataAt(p)) < 4

BadFaceCount(p) ==
    Tagged(p, TextF) /\ (Len(DataAt(p)) < 4 \/ Len(DataAt(p)) > 5)

\* the number of items the loop took without ending on them
TakenWell ==
    IF load_result \in {"running", "Ok"} THEN line_no ELSE line_no - 1

\* C25: load_obj only ever stores faces of exactly three indices; a v line
\* with fewer than three coordinates returns a Vert error and an f line
\* with fewer than three or more than four indices a Face error; on any
\* error no Obj is returned; lines with one token or an unknown tag change
\* neither the vertex list nor the face list.
C25_LinesByKind ==
    /\ \A t \in 1..Len(indices) : Len(indices[t]) = 3
    /\ \A p \in 1..line_no :
          /\ ShortVertex(p) => (p = line_no /\ load_result = "Vert")
          /\ BadFaceCount(p) => (p = line_no /\ load_result = "Face")
          /\ lines[p].err => (p = line_no /\ load_result = "Io")
    /\ load_result = "Ok" => line_no = Len(lines)
    /\ Len(vertices) = Cardinality({p \in 1..TakenWell : Tagged(p, TextV)})
    /\ Len(indices) = Cardinality({p \in 1..TakenWell : Tagged(p, TextF)})

\* witness of C25: an Obj with a face, from a file with a line that was
\* passed over
C25_Witness ==
    /\ load_result = "Ok"
    /\ Len(indices) >= 1
    /\ \E p \in 1..Len(lines) : ~Tagged(p, TextV) /\ ~Tagged(p, TextF)

(***************************************************************************)
(* Claims about the command line                                           *)
(***************************************************************************)
\* the scene selector is a number in 1..4
ValidSelector ==
    /\ Len(args) >= 2
    /\ parse_i32_ok(args[2])
    /\ parse(args[2]) \in Scenes1to4

\* C20: the program exits with code 1 whenever the scene selector is
\* missing, non-numeric or a number outside 1..4, and renders nothing then;
\* it exits with code 0 after rendering a valid scene.
C20_ExitCodes ==
    /\ ~ValidSelector => rendered = <<>>
    /\ main_pc = "exited" =>
          IF ValidSelector
          THEN exit_code = 0 /\ rendered = <<parse(args[2])>>
          ELSE exit_code = 1

(***************************************************************************)
(* Claims about AxisAlignedBoundingBox::union                              *)
(***************************************************************************)
\* C21: union of boxes A and B contains both A and B, gives the same box
\* for (A, B) and (B, A), is associative, and has empty as identity:
\* union(empty, x) = x.
C21_UnionLaws ==
    upc = "returned" =>
        /\ Contains(union_out.ab, box_a)
        /\ Contains(union_out.ab, box_b)
        /\ union_out.ab = union_out.ba
        /\ union_out.ab_c = union_out.a_bc
        /\ union_out.empty_a = box_a

\* witness of C21: the union of two boxes neither of which contains the
\* other, and a third box outside that union
C21_Witness ==
    /\ upc = "returned"
    /\ ~Contains(box_a, box_b)
    /\ ~Contains(box_b, box_a)
    /\ ~Contains(union_out.ab, box_c)
    /\ box_a # empty /\ box_b # empty /\ box_c # empty

(***************************************************************************)
(* Claims about the ranges BVH::build splits                               *)
(***************************************************************************)
\* the objects of the range [start, end) and the bounds of their centroids
RangeObjs(start, end) == SubSeq(objects, start + 1, end)

CentroidsBounds(objs) ==
    union_from_points([i \in 1..Len(objs) |-> centroid(objs[i])])

\* the minimum SAH split cost of the objects is not below their number
SahKeepsLeaf(objs) ==
    LET cb    == CentroidsBounds(objs)
        costs == SplitCosts(objs, cb, largest_extent_axis(cb))
    IN  ~SplitIsCheaper(costs[MinCostBucket(costs)], union_from_objs(objs),
                        Len(objs))

\* the reason the claim C22 allows for a leaf over these objects
LeafAllowed(objs) ==
    IF Len(objs) <= 1 THEN TRUE
    ELSE IF volume(CentroidsBounds(objs)) = 0 THEN TRUE
    ELSE IF Len(objs) > 4 THEN SahKeepsLeaf(objs)
    ELSE FALSE

\* C22: build emits a leaf for [start, end) only when end - start <= 1, or
\* the centroid bounds have zero volume, or (more than 4 primitives) the
\* minimum SAH split cost is not below the primitive count; a range of 2
\* to 4 primitives with non-degenerate centroid bounds is split.
C22_LeafOnlyWhenAllowed ==
    bpc = "built" =>
        \A n \in Leaves :
            LeafAllowed(RangeObjs(nodes[n + 1].object_indices[1],
                                  nodes[n + 1].object_indices[2]))

\* the first and one past the last object index under a node
RECURSIVE NodeStart(_)
NodeStart(n) ==
    IF nodes[n + 1].children_indices = <<>> THEN nodes[n + 1].object_indices[1]
    ELSE NodeStart(nodes[n + 1].children_indices[1])

RECURSIVE NodeEnd(_)
NodeEnd(n) ==
    IF nodes[n + 1].children_indices = <<>> THEN nodes[n + 1].object_indices[2]
    ELSE NodeEnd(nodes[n + 1].children_indices[2])

\* the side of its split that build assigns an object of objs to, mid_obj
\* being the object in the middle of objs
OnLeftSide(objs, axis, mid_obj, o) ==
    IF Len(objs) <= 8 THEN centroid(o)[axis] < centroid(mid_obj)[axis]
    ELSE LET cb == CentroidsBounds(objs)
         IN  BucketOf(cb, o, axis) <= MinCostBucket(SplitCosts(objs, cb, axis))

\* the objects of an interior node's range are in split order: those
\* before mid are the ones assigned to the left side
SplitOrdered(n) ==
    LET start == NodeStart(n)
        mid   == NodeEnd(nodes[n + 1].children_indices[1])
        objs  == RangeObjs(start, NodeEnd(n))
        mid_obj == objs[((start + NodeEnd(n)) \div 2) - start + 1]
    IN  \A i \in 1..Len(objs) :
            OnLeftSide(objs, nodes[n + 1].split_axis, mid_obj, objs[i])
                <=> i <= mid - start

\* C23: when build splits a range, the primitive array is permuted so
\* that [start, mid) holds exactly the primitives assigned to the left
\* side of the split (bucket <= argmin for SAH, centroid below the median
\* for a median split) and [mid, end) holds the others.
C23_RangesHoldTheirSide ==
    bpc = "built" => \A n \in Interiors : SplitOrdered(n)

\* the calls in progress nest: each works on a non-empty range strictly
\* inside that of its caller
FramesShrink ==
    \A k \in 2..Len(build_frames) :
        /\ build_frames[k].start < build_frames[k].end
        /\ build_frames[k - 1].start <= build_frames[k].start
        /\ build_frames[k].end <= build_frames[k - 1].end
        /\ build_frames[k].end - build_frames[k].start
              < build_frames[k - 1].end - build_frames[k - 1].start

SplitsInside ==
    \A k \in 1..Len(build_splits) :
        /\ build_splits[k][1] < build_splits[k][2]
        /\ build_splits[k][2] < build_splits[k][3]

\* C27: BVH::build terminates: whenever a range is split, mid satisfies
\* start < mid < end, so both recursive calls work on non-empty, strictly
\* smaller ranges, and no more than 2 * len - 1 calls of build are made.
C27_BuildTerminates ==
    build_pc # "idle" =>
        /\ SplitsInside
        /\ FramesShrink
        /\ Len(build_nodes) + Len(build_frames) <= 2 * Len(build_objects) - 1

\* witness of C27: a built tree with a surface-area split that is not the
\* median one, and a median split of a range that does not start at 0
C27_Witness ==
    /\ build_pc = "built"
    /\ \E k \in 1..Len(build_splits) :
          /\ build_splits[k][3] - build_splits[k][1] > 8
          /\ build_splits[k][2] # (build_splits[k][1] + build_splits[k][3]) \div 2
    /\ \E k \in 1..Len(build_splits) :
          /\ build_splits[k][3] - build_splits[k][1] <= 8
          /\ build_splits[k][1] > 0

\* the workers running a job, and those inside the dequeue
Running == {w \in Workers : wpc[w] = "run"}

Dequeuing == {w \in Workers : wpc[w] = "recv"}

\* C28: a worker never holds the shared receiver lock while it runs a job:
\* the lock is held only for the dequeue, so at most one worker is
\* dequeuing at any time, and while a job runs a worker waiting for the
\* free lock can take it.
C28_LockOnlyToDequeue ==
    /\ \A w \in Running : lockHolder # w
    /\ lockHolder # 0 => lockHolder \in Dequeuing
    /\ Cardinality(Dequeuing) <= 1
    /\ \A w \in Dequeuing : lockHolder = w
    /\ \A w \in Running : \A other \in Workers :
          (wpc[other] = "lock" /\ lockHolder = 0) => ENABLED WorkerLock(other)
    /\ \A w \in Running : \A other \in Dequeuing :
          channel # <<>> => ENABLED WorkerRecv(other)

\* witness of C28: one worker runs a job while another holds the lock and
\* has a message to take
C28_Witness ==
    /\ Running # {}
    /\ Dequeuing # {}
    /\ channel # <<>>

\* C29: the final callable is one-shot and last-wins: only the callable of
\* the last finish_with call is run, at most once and during drop; if
\* finish_with was never called, drop runs no final callable.
C29_FinalOnceLastWins ==
    /\ Len(finalRun) <= 1
    /\ finalRun # <<>> =>
          /\ finishCalls > 0
          /\ finalRun[1] = finishCalls
          /\ mainpc \in {"final", "dropped"}
    /\ finishCalls = 0 => finalRun = <<>>
    /\ mainpc \in {"final", "dropped"} => last_job = 0

\* witness of C29: drop ran the callable of the second finish_with call
C29_Witness ==
    /\ mainpc = "dropped"
    /\ finishCalls = 2
    /\ finalRun = <<2>>

\* the other case of C29: drop is over and no final callable ran
C29_NoFinal ==
    /\ mainpc = "dropped"
    /\ finishCalls = 0
    /\ finalRun = <<>>

\* node k of the array (index k - 1) is a leaf / an interior node
IsLeafNode(k) ==
    /\ Len(build_nodes[k].object_indices) = 2
    /\ build_nodes[k].children_indices = <<>>

IsInteriorNode(k) ==
    /\ build_nodes[k].object_indices = <<>>
    /\ Len(build_nodes[k].children_indices) = 2
    /\ \A c \in 1..2 :
          /\ build_nodes[k].children_indices[c] >= 0
          /\ build_nodes[k].children_indices[c] < Len(build_nodes)
          /\ build_nodes[k].children_indices[c] < k - 1

\* C30: in the node array of a built BVH every node is either a leaf
\* (object range set, no children) or an interior node (two children set,
\* no object range), both child indices of an interior node are valid and
\* strictly smaller than the node's own index, and the root is the last
\* node of the array.
C30_NodeArrayShape ==
    /\ \A k \in 1..Len(build_nodes) : IsLeafNode(k) \/ IsInteriorNode(k)
    /\ build_pc = "built" => build_root = Len(build_nodes) - 1

\* witness of C30: a built tree whose root has an interior node as a child
C30_Witness ==
    /\ build_pc = "built"
    /\ IsInteriorNode(build_root + 1)
    /\ \E c \in 1..2 :
          IsInteriorNode(build_nodes[build_root + 1].children_indices[c] + 1)

====
